---- MODULE Spec2Model ----
(***************************************************************************)
(* Model of kobo-highlights: the import ledger (.imported_bookmarks.json), *)
(* the markdown document writer and the `ls` / `import` commands.          *)
(*                                                                         *)
(* Text is modelled as a sequence of atoms.  An atom is one character      *)
(* (">", " ", "\n", "*", "-") or one opaque word ("A", "new", ".md").      *)
(* Python values that can be a string or None are tagged records           *)
(* (PyStr / PyNone); parsed JSON values use the same shape.  The ledger    *)
(* file is a sequence of JSON tokens, written by JsonDumps and read by     *)
(* JsonLoads.                                                              *)
(***************************************************************************)
EXTENDS Naturals, Sequences, FiniteSets

(***************************************************************************)
(* Bounds of the model.                                                    *)
(***************************************************************************)
\* number of bookmark rows the ereader snapshot may hold
MaxBookmarks == 3
\* most rows of the Bookmark table of the ereader database
MaxRows == 3
\* most lines of the file config.toml
MaxLines == 3
\* number of commands and direct function calls in one behaviour
MaxCommands == 2
\* most atoms of its text a failing write leaves in the file
MaxPartial == 1
\* number of programs that run at the same time on one ledger
MaxProcs == 2

(***************************************************************************)
(* Python / JSON values.                                                   *)
(***************************************************************************)
PyStr(s) == [t |-> "str", v |-> s, items |-> <<>>, pairs |-> <<>>]
PyNone == [t |-> "null", v |-> <<>>, items |-> <<>>, pairs |-> <<>>]
PyNum(s) == [t |-> "num", v |-> s, items |-> <<>>, pairs |-> <<>>]
PyList(xs) == [t |-> "list", v |-> <<>>, items |-> xs, pairs |-> <<>>]
PyDict(ps) == [t |-> "dict", v |-> <<>>, items |-> <<>>, pairs |-> ps]

\* Python's `x in xs` for a list xs
InList(x, xs) == \E j \in 1..Len(xs) : xs[j] = x

\* Python's truthiness of a str | None value (`if annotation := ...`)
Truthy(x) == x.t = "str" /\ x.v # <<>>

(***************************************************************************)
(* JSON text: a sequence of tokens.  k is the token kind, v the text of a  *)
(* string or number literal.  "ws" is whitespace between tokens and "junk" *)
(* any character sequence that is no JSON token.                           *)
(***************************************************************************)
Tok(k, v) == [k |-> k, v |-> v]
P(k) == Tok(k, <<>>)

IMPORTED_KEY == <<"imported_bookmark_ids">>

\* json.dumps of a str / None / number
DumpsScalar(x) ==
    IF x.t = "str" THEN Tok("str", x.v)
    ELSE IF x.t = "num" THEN Tok("num", x.v)
    ELSE P("null")

\* json.dumps of the elements of a list, separated by ", "
RECURSIVE DumpsItems(_)
DumpsItems(xs) ==
    IF xs = <<>> THEN <<>>
    ELSE IF Len(xs) = 1 THEN <<DumpsScalar(xs[1])>>
    ELSE <<DumpsScalar(xs[1]), P(","), P("ws")>> \o DumpsItems(Tail(xs))

\* json.dumps({"imported_bookmark_ids": ids})
JsonDumps(ids) ==
    <<P("{"), Tok("str", IMPORTED_KEY), P(":"), P("ws"), P("[")>>
        \o DumpsItems(ids) \o <<P("]"), P("}")>>

\* result of a parse step: ok, the value, and the index after it
PRes(ok, val, next) == [ok |-> ok, val |-> val, next |-> next]
PFail == PRes(FALSE, PyNone, 0)

KindAt(ts, i) == IF i \in 1..Len(ts) THEN ts[i].k ELSE "eof"

ParseScalar(ts, i) ==
    IF KindAt(ts, i) = "str" THEN PRes(TRUE, PyStr(ts[i].v), i + 1)
    ELSE IF KindAt(ts, i) = "num" THEN PRes(TRUE, PyNum(ts[i].v), i + 1)
    ELSE IF KindAt(ts, i) = "null" THEN PRes(TRUE, PyNone, i + 1)
    ELSE PFail

\* the elements of an array after "[": scalar ("," scalar)* "]"; e is the
\* parse of the element at hand
RECURSIVE ParseElems(_, _, _), ParseElemsAfter(_, _, _)
ParseElemsAfter(ts, acc, e) ==
    IF ~e.ok THEN PFail
    ELSE IF KindAt(ts, e.next) = "]"
         THEN PRes(TRUE, PyList(Append(acc, e.val)), e.next + 1)
    ELSE IF KindAt(ts, e.next) = ","
         THEN ParseElems(ts, e.next + 1, Append(acc, e.val))
    ELSE PFail

ParseElems(ts, i, acc) == ParseElemsAfter(ts, acc, ParseScalar(ts, i))

ParseArray(ts, i) ==
    IF KindAt(ts, i) # "[" THEN PFail
    ELSE IF KindAt(ts, i + 1) = "]" THEN PRes(TRUE, PyList(<<>>), i + 2)
    ELSE ParseElems(ts, i + 1, <<>>)

\* a member value: a scalar or an array of scalars
ParseMemberValue(ts, i) ==
    IF KindAt(ts, i) = "[" THEN ParseArray(ts, i) ELSE ParseScalar(ts, i)

\* the members of an object after "{": str ":" value ("," str ":" value)* "}";
\* m is the parse of the value of the member at hand
RECURSIVE ParseMembers(_, _, _), ParseMembersAfter(_, _, _, _)
ParseMembersAfter(ts, acc, key, m) ==
    IF ~m.ok THEN PFail
    ELSE IF KindAt(ts, m.next) = "}"
         THEN PRes(TRUE, PyDict(Append(acc, [key |-> key, val |-> m.val])),
                   m.next + 1)
    ELSE IF KindAt(ts, m.next) = ","
         THEN ParseMembers(ts, m.next + 1,
                           Append(acc, [key |-> key, val |-> m.val]))
    ELSE PFail

ParseMembers(ts, i, acc) ==
    IF KindAt(ts, i) # "str" \/ KindAt(ts, i + 1) # ":" THEN PFail
    ELSE ParseMembersAfter(ts, acc, ts[i].v, ParseMemberValue(ts, i + 2))

ParseObject(ts, i) ==
    IF KindAt(ts, i) # "{" THEN PFail
    ELSE IF KindAt(ts, i + 1) = "}" THEN PRes(TRUE, PyDict(<<>>), i + 2)
    ELSE ParseMembers(ts, i + 1, <<>>)

\* the value that starts at the first token
ParseValue(ts) ==
    IF KindAt(ts, 1) = "{" THEN ParseObject(ts, 1)
    ELSE IF KindAt(ts, 1) = "[" THEN ParseArray(ts, 1)
    ELSE ParseScalar(ts, 1)

\* a document is one value and nothing after it
ParseWhole(ts, r) == IF r.ok /\ r.next = Len(ts) + 1 THEN r ELSE PFail
ParseDocument(ts) == ParseWhole(ts, ParseValue(ts))

\* json.loads: ok = FALSE stands for json.decoder.JSONDecodeError
JsonLoads(content) ==
    ParseDocument(SelectSeq(content, LAMBDA tk : tk.k # "ws"))

\* dict lookup d[key]: the last member with that key wins
HasKey(d, key) == \E j \in 1..Len(d.pairs) : d.pairs[j].key = key
GetItem(d, key) ==
    LET j == CHOOSE j \in 1..Len(d.pairs) :
                 /\ d.pairs[j].key = key
                 /\ \A l \in (j + 1)..Len(d.pairs) : d.pairs[l].key # key
    IN  d.pairs[j].val

(***************************************************************************)
(* The import ledger: functions.py, query_bookmark_ids_from_json and       *)
(* write_bookmark_id_to_json.  A file is [exists, content].                *)
(***************************************************************************)
NoFile == [exists |-> FALSE, content |-> <<>>]
File(content) == [exists |-> TRUE, content |-> content]

\* outcome of the try block of query_bookmark_ids_from_json: exc is "" or the
\* exception raised, ids the list found under the key when none is raised
Raise(e) == [exc |-> e, ids |-> <<>>]

\* the isinstance check with one more: every element is a string or null
CheckList_strict(value) ==
    IF value.t # "list" THEN Raise("TypeError")
    ELSE IF \E j \in 1..Len(value.items) :
                value.items[j].t \notin {"str", "null"}
         THEN Raise("TypeError")
    ELSE [exc |-> "", ids |-> value.items]

\* if not isinstance(json_content["imported_bookmark_ids"], list): raise
CheckList(value) ==
    IF value.t # "list" THEN Raise("TypeError")
    ELSE [exc |-> "", ids |-> value.items]

\* the subscript with one more check: the key is the only one
CheckContent_strict(r) ==
    IF ~r.ok THEN Raise("JSONDecodeError")
    ELSE IF r.val.t # "dict" THEN Raise("TypeError")
    ELSE IF ~HasKey(r.val, IMPORTED_KEY) THEN Raise("KeyError")
    ELSE IF Len(r.val.pairs) # 1 THEN Raise("KeyError")
    ELSE CheckList_strict(GetItem(r.val, IMPORTED_KEY))

\* json.loads(...) and json_content["imported_bookmark_ids"]: r is the parse
CheckContent(r) ==
    IF ~r.ok THEN Raise("JSONDecodeError")
    ELSE IF r.val.t # "dict" THEN Raise("TypeError")
    ELSE IF ~HasKey(r.val, IMPORTED_KEY) THEN Raise("KeyError")
    ELSE CheckList(GetItem(r.val, IMPORTED_KEY))

\* the try block of query_bookmark_ids_from_json
TryLoad(file) ==
    IF ~file.exists THEN Raise("FileNotFoundError")
    ELSE CheckContent(JsonLoads(file.content))

LedgerCheck(file) == TryLoad(file).exc

CorruptKinds == {"JSONDecodeError", "KeyError", "TypeError"}

\* result of a ledger call: the file afterwards, the returned ids, the
\* exception that left the call ("" when it returned), and how often the
\* error was printed and Confirm.ask was called
LRes(file, ids, raised, printed, asked) ==
    [file |-> file, ids |-> ids, raised |-> raised,
     printed |-> printed, asked |-> asked]

\* the except clauses with the structural errors caught by the first one: a
\* corrupt ledger is replaced without a question
AfterTry_silent_reset(file, confirm, try) ==
    IF try.exc = "" THEN LRes(file, try.ids, "", 0, 0)
    ELSE LRes(File(JsonDumps(<<>>)), <<>>, "", 0, 0)

\* the except clauses with FileNotFoundError caught by the second one: a
\* missing ledger is reported and asked about
AfterTry_asks_if_missing(file, confirm, try) ==
    IF try.exc = "" THEN LRes(file, try.ids, "", 0, 0)
    ELSE IF confirm
    THEN LRes(File(JsonDumps(<<>>)), <<>>, "", 1, 1)
    ELSE LRes(file, <<>>, "Abort", 1, 1)

\* the except clauses and the return of query_bookmark_ids_from_json; try is
\* the outcome of the try block, confirm the user's answer to Confirm.ask,
\* read only when the question is asked
AfterTry(file, confirm, try) ==
    IF try.exc = "" THEN LRes(file, try.ids, "", 0, 0)
    ELSE IF try.exc = "FileNotFoundError"
    THEN LRes(File(JsonDumps(<<>>)), <<>>, "", 0, 0)
    ELSE IF confirm
    THEN LRes(File(JsonDumps(<<>>)), <<>>, "", 1, 1)
    ELSE LRes(file, <<>>, "Abort", 1, 1)

\* query_bookmark_ids_from_json(json_filepath)
query_bookmark_ids_from_json(file, confirm) ==
    AfterTry(file, confirm, TryLoad(file))

\* the list after `if id not in stored_ids: stored_ids.append(id)`
\* the append without the membership test
StoredIds_always_appends(ids, id) == Append(ids, id)

StoredIds(ids, id) == IF InList(id, ids) THEN ids ELSE Append(ids, id)

\* the body without the append: the list is rewritten as read
AfterQuery_forgets(q, id) ==
    IF q.raised # "" THEN q
    ELSE LRes(File(JsonDumps(q.ids)), q.ids, "", q.printed, q.asked)

\* the body without the membership test: always appends
AfterQuery_always_appends(q, id) ==
    IF q.raised # "" THEN q
    ELSE LRes(File(JsonDumps(Append(q.ids, id))), Append(q.ids, id), "",
              q.printed, q.asked)

\* the body of write_bookmark_id_to_json after the load q: the append and
\* the write_text of the whole list
AfterQuery(q, id) ==
    IF q.raised # "" THEN q
    ELSE LRes(File(JsonDumps(StoredIds(q.ids, id))), StoredIds(q.ids, id), "",
              q.printed, q.asked)

\* write_bookmark_id_to_json(json_filepath, id)
write_bookmark_id_to_json(file, id, confirm) ==
    AfterQuery(query_bookmark_ids_from_json(file, confirm), id)

\* the id list a structurally valid ledger file holds (empty otherwise)
LedgerIds(file) == TryLoad(file).ids

\* the answers the user can give to the Confirm.ask of a call on the file:
\* the question is asked only about a corrupt ledger
Answers(file) ==
    IF LedgerCheck(file) \in CorruptKinds THEN BOOLEAN ELSE {FALSE}

(***************************************************************************)
(* The document writer: functions.py, add_bookmark_to_md.                  *)
(***************************************************************************)
NL == "\n"
SEPARATOR == <<NL, NL, "*", "*", "*", NL, NL>>

\* f"{bookmark['title']} - {bookmark['author']}.md"
md_filename(bookmark) ==
    bookmark.title \o <<" ", "-", " ">> \o bookmark.author \o <<".md">>

\* str.replace("\n", "\n> ")
RECURSIVE ReplaceNewlines(_)
ReplaceNewlines(s) ==
    IF s = <<>> THEN <<>>
    ELSE (IF Head(s) = NL THEN <<NL, ">", " ">> ELSE <<Head(s)>>)
             \o ReplaceNewlines(Tail(s))

\* f"> {bookmark['text']}".replace("\n", "\n> ")
md_blockquote(bookmark) == ReplaceNewlines(<<">", " ">> \o bookmark.text)

\* md_block with `is not None` for the truth test of the annotation
md_block_any_annotation(bookmark) ==
    IF bookmark.annotation # PyNone
    THEN md_blockquote(bookmark) \o <<NL, NL>> \o bookmark.annotation.v
    ELSE md_blockquote(bookmark)

\* the block both branches share: the quote, then the annotation if truthy
md_block(bookmark) ==
    IF Truthy(bookmark.annotation)
    THEN md_blockquote(bookmark) \o <<NL, NL>> \o bookmark.annotation.v
    ELSE md_blockquote(bookmark)

text_new_file(bookmark) == <<NL>> \o md_block(bookmark)
text_existing_file(bookmark) == SEPARATOR \o md_block(bookmark)

\* add_bookmark_to_md without the is_file test: always the text with the
\* separator
add_bookmark_to_md_always_separator(files, bookmark) ==
    LET name == md_filename(bookmark) IN
    [files EXCEPT ![name] =
         File(files[name].content \o text_existing_file(bookmark))]

\* add_bookmark_to_md that opens an existing file with "w" instead of "a"
add_bookmark_to_md_overwrites(files, bookmark) ==
    LET name == md_filename(bookmark) IN
    IF files[name].exists
    THEN [files EXCEPT ![name] = File(text_existing_file(bookmark))]
    ELSE [files EXCEPT ![name] = File(text_new_file(bookmark))]

\* add_bookmark_to_md(bookmark, md_dir) when every filesystem call succeeds;
\* files maps a filename to [exists, content]
add_bookmark_to_md(files, bookmark) ==
    LET name == md_filename(bookmark) IN
    IF files[name].exists
    THEN [files EXCEPT ![name] =
              File(files[name].content \o text_existing_file(bookmark))]
    ELSE [files EXCEPT ![name] = File(text_new_file(bookmark))]

\* the text add_bookmark_to_md writes to the file of the bookmark
md_text(files, bookmark) ==
    IF files[md_filename(bookmark)].exists
    THEN text_existing_file(bookmark) ELSE text_new_file(bookmark)

\* add_bookmark_to_md_fails that opens an existing file with "w": the file
\* holds only what the failing write put into it
add_bookmark_to_md_fails_truncates(files, bookmark, opened, k) ==
    LET name == md_filename(bookmark) IN
    IF ~opened THEN files
    ELSE [files EXCEPT ![name] = File(SubSeq(md_text(files, bookmark), 1, k))]

\* add_bookmark_to_md when a filesystem call raises OSError: the open fails
\* and the file is untouched (opened = FALSE), or the write fails after only
\* the first k atoms of the text reached the file
add_bookmark_to_md_fails(files, bookmark, opened, k) ==
    LET name == md_filename(bookmark) IN
    IF ~opened THEN files
    ELSE IF files[name].exists
    THEN [files EXCEPT ![name] =
              File(files[name].content
                       \o SubSeq(text_existing_file(bookmark), 1, k))]
    ELSE [files EXCEPT ![name] =
              File(SubSeq(text_new_file(bookmark), 1, k))]

(***************************************************************************)
(* Selection of the bookmarks to import: main.py, import_highlights.       *)
(***************************************************************************)
IsSpace(a) == a \in {" ", NL}

\* str.split(): the maximal runs of non-whitespace atoms
RECURSIVE SplitFrom(_, _, _)
SplitFrom(s, cur, acc) ==
    IF s = <<>> THEN (IF cur = <<>> THEN acc ELSE Append(acc, cur))
    ELSE IF IsSpace(Head(s))
         THEN SplitFrom(Tail(s), <<>>,
                        IF cur = <<>> THEN acc ELSE Append(acc, cur))
    ELSE SplitFrom(Tail(s), Append(cur, Head(s)), acc)

Split(s) == SplitFrom(s, <<>>, <<>>)

\* the filter with `in` for `not in`
NotImported_inverted(bookmarks, ids) ==
    SelectSeq(bookmarks, LAMBDA bm : InList(bm.id, ids))

\* [bm for bm in bookmarks if bm["id"] not in ids]
NotImported(bookmarks, ids) ==
    SelectSeq(bookmarks, LAMBDA bm : ~InList(bm.id, ids))

\* SelectionBranch without the arm `case "all"`: "all" is resolved as any
\* other selector
SelectionBranch_no_all(bookmarks, selection) ==
    LET selected_ids == Split(selection) IN
    IF selection = <<"new">> THEN "new"
    ELSE IF \A j \in 1..Len(selected_ids) :
                \E l \in 1..Len(bookmarks) :
                    bookmarks[l].id = PyStr(selected_ids[j])
         THEN "ids"
    ELSE IF \E l \in 1..Len(bookmarks) : bookmarks[l].title = selection
         THEN "title"
    ELSE IF \E l \in 1..Len(bookmarks) : bookmarks[l].author = selection
         THEN "author"
    ELSE "none"

\* SelectionBranch with the test for the author before the test for the title
SelectionBranch_author_first(bookmarks, selection) ==
    LET selected_ids == Split(selection) IN
    IF selection = <<"new">> THEN "new"
    ELSE IF selection = <<"all">> THEN "all"
    ELSE IF \A j \in 1..Len(selected_ids) :
                \E l \in 1..Len(bookmarks) :
                    bookmarks[l].id = PyStr(selected_ids[j])
         THEN "ids"
    ELSE IF \E l \in 1..Len(bookmarks) : bookmarks[l].author = selection
         THEN "author"
    ELSE IF \E l \in 1..Len(bookmarks) : bookmarks[l].title = selection
         THEN "title"
    ELSE "none"

\* the branch of `match bookmark_selection` that runs
SelectionBranch(bookmarks, selection) ==
    LET selected_ids == Split(selection) IN
    IF selection = <<"new">> THEN "new"
    ELSE IF selection = <<"all">> THEN "all"
    ELSE IF \A j \in 1..Len(selected_ids) :
                \E l \in 1..Len(bookmarks) :
                    bookmarks[l].id = PyStr(selected_ids[j])
         THEN "ids"
    ELSE IF \E l \in 1..Len(bookmarks) : bookmarks[l].title = selection
         THEN "title"
    ELSE IF \E l \in 1..Len(bookmarks) : bookmarks[l].author = selection
         THEN "author"
    ELSE "none"

\* the rows named by the tokens, token by token
RECURSIVE ByToken(_, _)
ByToken(bookmarks, tokens) ==
    IF tokens = <<>> THEN <<>>
    ELSE SelectSeq(bookmarks, LAMBDA bm : bm.id = PyStr(Head(tokens)))
             \o ByToken(bookmarks, Tail(tokens))

\* SelectedBookmarks with the loop of the ids branch over selected_ids
\* instead of ereader_bookmarks
SelectedBookmarks_token_order(bookmarks, selection, ids) ==
    LET branch == SelectionBranch(bookmarks, selection) IN
    IF branch = "new" THEN NotImported(bookmarks, ids)
    ELSE IF branch = "all" THEN bookmarks
    ELSE IF branch = "ids" THEN ByToken(bookmarks, Split(selection))
    ELSE IF branch = "title"
         THEN SelectSeq(bookmarks, LAMBDA bm : bm.title = selection)
    ELSE IF branch = "author"
         THEN SelectSeq(bookmarks, LAMBDA bm : bm.author = selection)
    ELSE <<>>

\* the bookmarks the loop of the taken branch passes to add_bookmark_to_md,
\* in the order it passes them; ids is the list loaded for "new"
SelectedBookmarks(bookmarks, selection, ids) ==
    LET branch == SelectionBranch(bookmarks, selection)
        selected_ids == Split(selection)
    IN  IF branch = "new" THEN NotImported(bookmarks, ids)
        ELSE IF branch = "all" THEN bookmarks
        ELSE IF branch = "ids"
             THEN SelectSeq(bookmarks, LAMBDA bm :
                      \E j \in 1..Len(selected_ids) :
                          bm.id = PyStr(selected_ids[j]))
        ELSE IF branch = "title"
             THEN SelectSeq(bookmarks, LAMBDA bm : bm.title = selection)
        ELSE IF branch = "author"
             THEN SelectSeq(bookmarks, LAMBDA bm : bm.author = selection)
        ELSE <<>>

(***************************************************************************)
(* The data the model draws from.                                          *)
(***************************************************************************)
Bookmark(id, text, annotation, title, author) ==
    [id |-> id, text |-> text, annotation |-> annotation,
     title |-> title, author |-> author]

\* the rows of the ereader, in row order: two highlights of one book, the
\* first of two lines, the second with an annotation; a highlight of a book
\* whose title is the author of the first book and whose author is the id
\* of the first row, with an empty annotation; a highlight of a fourth book
Shelf ==
    << Bookmark(PyStr(<<"A">>), <<"a", NL, "b">>, PyNone, <<"T">>, <<"U">>),
       Bookmark(PyStr(<<"B">>), <<"c">>, PyStr(<<"n", NL, "m">>),
                <<"T">>, <<"U">>),
       Bookmark(PyStr(<<"C">>), <<"d">>, PyStr(<<>>), <<"U">>, <<"A">>),
       Bookmark(PyStr(<<"D">>), <<"e">>, PyNone, <<"V">>, <<"U">>) >>

\* what query_bookmarks_from_ereader can return: no row, the first rows of
\* the shelf, the same rows in the opposite row order, or all but the last
\* of them
Reverse(s) == [j \in 1..Len(s) |-> s[Len(s) + 1 - j]]
Snapshots ==
    LET top == IF MaxBookmarks < Len(Shelf) THEN MaxBookmarks ELSE Len(Shelf)
    IN  {<<>>, SubSeq(Shelf, 1, top), Reverse(SubSeq(Shelf, 1, top)),
         SubSeq(Shelf, 1, top - 1)}

Filenames == {md_filename(Shelf[j]) : j \in 1..Len(Shelf)}

IdA == PyStr(<<"A">>)
IdB == PyStr(<<"B">>)
KeyTok == Tok("str", IMPORTED_KEY)
StrTok(a) == Tok("str", <<a>>)

\* ledger files found on disk before the first command
LedgerFiles ==
    { NoFile,
      File(JsonDumps(<<>>)),
      File(JsonDumps(<<IdA>>)),
      File(JsonDumps(<<IdB, PyNone, IdA>>)),
      \* as JSON_CONTENTS of the tests: no blank after the commas
      File(<<P("{"), KeyTok, P(":"), P("ws"), P("["),
             StrTok("A"), P(","), StrTok("B"), P("]"), P("}")>>),
      \* WRONG_JSON_CONTENTS: truncated
      File(<<P("{"), KeyTok, P(":"), P("ws"), P("["),
             StrTok("A"), P(","), StrTok("B")>>),
      \* JSON_CONTENTS_NO_DICT
      File(<<P("["), StrTok("A"), P(","), StrTok("B"), P("]")>>),
      \* JSON_CONTENTS_WRONG_KEY
      File(<<P("{"), StrTok("wrong_key"), P(":"), P("ws"), P("["),
             StrTok("A"), P("]"), P("}")>>),
      \* JSON_CONTENTS_WRONG_VALUE
      File(<<P("{"), KeyTok, P(":"), P("ws"), StrTok("Not a list"), P("}")>>),
      \* a second key next to the expected one
      File(<<P("{"), KeyTok, P(":"), P("ws"), P("["), StrTok("A"), P("]"),
             P(","), P("ws"), StrTok("extra"), P(":"), P("ws"), P("null"),
             P("}")>>),
      \* a number among the ids
      File(<<P("{"), KeyTok, P(":"), P("ws"), P("["), Tok("num", <<"1">>),
             P(","), P("ws"), StrTok("A"), P("]"), P("}")>>),
      \* a file that is no JSON at all
      File(<<P("junk")>>) }

\* the documents found on disk before the first command
NoDocuments == [name \in Filenames |-> NoFile]
InitialDocuments ==
    { NoDocuments,
      [NoDocuments EXCEPT ![md_filename(Shelf[1])] = File(<<"p", NL>>)] }

\* the values of the argument of `kh import`
Selections ==
    { <<"new">>, <<"all">>, <<"A">>, <<"B", " ", " ", "A", " ", "B">>,
      <<"T">>, <<"U">>, <<"V">>, <<"zzz">>, <<"A", " ", "zzz">>, <<>> }

\* the ids write_bookmark_id_to_json is called with directly
RecordArgs == {IdA, PyNone}

(***************************************************************************)
(* The extractor: functions.py, query_bookmarks_from_ereader.              *)
(***************************************************************************)
\* str.strip(): the string without its leading and trailing whitespace
RECURSIVE LStrip(_)
LStrip(s) ==
    IF s # <<>> /\ IsSpace(Head(s)) THEN LStrip(Tail(s)) ELSE s

Strip(s) == Reverse(LStrip(Reverse(LStrip(s))))

\* str.replace(" - ", "-"): the occurrences found from the left, none
\* overlapping another, each replaced
RECURSIVE ReplaceSeparator(_)
ReplaceSeparator(s) ==
    IF Len(s) >= 3 /\ SubSeq(s, 1, 3) = <<" ", "-", " ">>
    THEN <<"-">> \o ReplaceSeparator(SubSeq(s, 4, Len(s)))
    ELSE IF s = <<>> THEN <<>>
    ELSE <<Head(s)>> \o ReplaceSeparator(Tail(s))

UNKNOWN_AUTHOR == <<"Unknown", " ", "author">>

\* the author of a bookmark from the Attribution of its book
author_of(queried_author) ==
    IF Truthy(queried_author)
    THEN ReplaceSeparator(queried_author.v)
    ELSE UNKNOWN_AUTHOR

\* BM_QUERY without its WHERE clause
BM_QUERY_every_row(rows) == rows

\* BM_QUERY: the rows of the Bookmark table whose Text is not null, in the
\* order of the table
BM_QUERY(rows) == SelectSeq(rows, LAMBDA r : r.Text # PyNone)

\* CONTENT_QUERY: the rows of the content table with the ContentID and the
\* ContentType '6'; fetchone() takes the first, None if there is none
CONTENT_QUERY(rows, volume_id) ==
    SelectSeq(rows, LAMBDA r : r.ContentID = volume_id /\ r.ContentType = "6")

\* the title with strip(), as the text
title_of_stripped(queried_title) == Strip(queried_title)

\* current_bookmark["title"] = content_query_result[0]: the title as stored
title_of(queried_title) == queried_title

\* the dict of one iteration of the loop
current_bookmark(bookmark_data, content_query_result) ==
    Bookmark(bookmark_data.UUID,
             Strip(bookmark_data.Text.v),
             bookmark_data.Annotation,
             title_of(content_query_result.Title),
             author_of(content_query_result.Attribution))

\* a row of the Bookmark table and a row of the content table
BookmarkRow(uuid, text, annotation, volume_id) ==
    [UUID |-> PyStr(uuid), Text |-> text, Annotation |-> annotation,
     VolumeID |-> volume_id]
ContentRow(content_id, content_type, title, attribution) ==
    [ContentID |-> content_id, ContentType |-> content_type,
     Title |-> title, Attribution |-> attribution]

\* the rows a Bookmark table is made of: a highlight with whitespace around
\* its two lines; a marked page, whose Text is null; an annotated highlight
\* of a second book; a highlight whose volume has no book row
BookmarkRows ==
    { BookmarkRow(<<"A">>, PyStr(<<" ", "a", NL, "b", NL>>), PyNone, <<"v1">>),
      BookmarkRow(<<"B">>, PyNone, PyNone, <<"v1">>),
      BookmarkRow(<<"C">>, PyStr(<<"c">>), PyStr(<<"n">>), <<"v2">>),
      BookmarkRow(<<"D">>, PyStr(<<"d">>), PyStr(<<>>), <<"v3">>) }

\* the sequences of at most n different rows
RECURSIVE RowSeqs(_)
RowSeqs(n) ==
    IF n = 0 THEN {<<>>}
    ELSE RowSeqs(n - 1)
         \cup {Append(rows, r) :
                   <<rows, r>> \in
                       {x \in RowSeqs(n - 1) \X BookmarkRows :
                            Len(x[1]) = n - 1 /\ ~InList(x[2], x[1])}}

BookmarkTables ==
    RowSeqs(IF MaxRows < Cardinality(BookmarkRows)
            THEN MaxRows ELSE Cardinality(BookmarkRows))

\* the Title and the Attribution of the book row of the first volume
Titles == {<<"T">>, <<" ", "T", NL>>}
Attributions ==
    { PyNone, PyStr(<<>>), PyStr(<<"U">>),
      PyStr(<<"a", " ", "-", " ", "b">>),
      PyStr(<<"a", " ", " ", "-", " ", " ", "b">>) }

\* a content table: for the first volume a chapter row (ContentType 9) and
\* the book row, for the second the book row, for the third a chapter row
ContentTable(title, attribution) ==
    << ContentRow(<<"v1">>, "9", <<"X">>, PyNone),
       ContentRow(<<"v1">>, "6", title, attribution),
       ContentRow(<<"v2">>, "6", <<"V">>, PyStr(<<"W">>)),
       ContentRow(<<"v3">>, "9", <<"Y">>, PyNone) >>

ContentTables ==
    {ContentTable(title, attribution) :
         <<title, attribution>> \in Titles \X Attributions}

\* the file at sqlite_filepath: missing, or a database with the tables
\* named; readable tells what reading the file gives: "yes" its content,
\* "no" an error when it is opened (PermissionError), "partly" an error after
\* a part of it was read (the device went away)
NoDatabase ==
    [exists |-> FALSE, readable |-> "no", tables |-> {}, Bookmark |-> <<>>,
     content |-> <<>>]
Database(tables, bookmark, content) ==
    [exists |-> TRUE, readable |-> "yes", tables |-> tables,
     Bookmark |-> bookmark, content |-> content]
Unreadable(how) ==
    [exists |-> TRUE, readable |-> how, tables |-> {}, Bookmark |-> <<>>,
     content |-> <<>>]

Databases ==
    {NoDatabase, Unreadable("no"), Unreadable("partly"),
     Database({}, <<>>, <<>>)}
        \cup {Database({"Bookmark"}, rows, <<>>) : rows \in BookmarkTables}
        \cup {Database({"Bookmark", "content"}, rows, content) :
                  <<rows, content>> \in BookmarkTables \X ContentTables}

(***************************************************************************)
(* The configuration: config.py, Config.from_file.                         *)
(***************************************************************************)
\* a line `key = value` of a TOML file; kind is "str" for a quoted string,
\* "int" for a number, "garbage" for a line that is no TOML, "bytes" for
\* bytes that are no UTF-8 text
TomlLine(key, kind, value) == [key |-> key, kind |-> kind, value |-> value]

\* toml.load(config_path) on the content of a file: it reads the file as
\* UTF-8 text (UnicodeDecodeError when it is none), then parses it: the dict
\* of its lines, or TomlDecodeError for a line that is no TOML or a key
\* defined twice
toml_load(text) ==
    IF \E j \in 1..Len(text) : text[j].kind = "bytes"
    THEN [exc |-> "UnicodeDecodeError", dict |-> <<>>]
    ELSE
    IF \/ \E j \in 1..Len(text) : text[j].kind = "garbage"
       \/ \E j, l \in 1..Len(text) : j # l /\ text[j].key = text[l].key
    THEN [exc |-> "TomlDecodeError", dict |-> <<>>]
    ELSE [exc |-> "", dict |-> text]

\* the fields of the model Config: both are required and of type Path
ConfigFields == {"target_dir", "ereader_dir"}

\* the value of a field of the dict
FieldValue(dict, field) ==
    dict[CHOOSE j \in 1..Len(dict) : dict[j].key = field].value

NoConfig == [set |-> FALSE, target_dir |-> "", ereader_dir |-> ""]
ConfigOf(target_dir, ereader_dir) ==
    [set |-> TRUE, target_dir |-> target_dir, ereader_dir |-> ereader_dir]

\* cls.parse_obj(dict) of the pydantic model with extra=Extra.forbid:
\* ValidationError for a key that is no field, a field without key, or a
\* value that is no path
parse_obj(dict) ==
    IF \/ \E j \in 1..Len(dict) : dict[j].key \notin ConfigFields
       \/ \E f \in ConfigFields : \A j \in 1..Len(dict) : dict[j].key # f
       \/ \E j \in 1..Len(dict) : dict[j].kind # "str"
    THEN [exc |-> "ValidationError", config |-> NoConfig]
    ELSE [exc |-> "",
          config |-> ConfigOf(FieldValue(dict, "target_dir"),
                              FieldValue(dict, "ereader_dir"))]

\* the except clauses of from_file: each of the three turns into ConfigError
ConfigErrorOf(exc) ==
    IF exc \in {"FileNotFoundError", "TomlDecodeError", "TypeError",
                "ValidationError"}
    THEN "ConfigError" ELSE exc

\* the try block of from_file on a loaded dict
ParseLoaded(loaded) ==
    IF loaded.exc # "" THEN [exc |-> loaded.exc, config |-> NoConfig]
    ELSE parse_obj(loaded.dict)

\* Config.from_file(config_path): the Config, or the exception raised
FromFileResult(tried) ==
    [exc |-> ConfigErrorOf(tried.exc), config |-> tried.config]

from_file(file) ==
    IF ~file.exists THEN [exc |-> "ConfigError", config |-> NoConfig]
    ELSE FromFileResult(ParseLoaded(toml_load(file.content)))

\* save_file: toml.dump of the two fields as strings
SavedConfig(cfg) ==
    File(<<TomlLine("target_dir", "str", cfg.target_dir),
           TomlLine("ereader_dir", "str", cfg.ereader_dir)>>)

\* the configuration of a program whose callback setup has returned
LoadedConfig == ConfigOf("/t", "/e")

\* the lines a config file is made of
TomlLines ==
    {TomlLine("target_dir", "str", "/t"), TomlLine("target_dir", "int", "1"),
     TomlLine("ereader_dir", "str", "/e"), TomlLine("ereader_dir", "str", "e"),
     TomlLine("kobo_path", "str", "/k"),
     TomlLine("", "garbage", ""), TomlLine("", "bytes", "")}

RECURSIVE TomlTexts(_)
TomlTexts(n) ==
    IF n = 0 THEN {<<>>}
    ELSE LET shorter == TomlTexts(n - 1)
         IN  shorter \cup {Append(t, l) : t \in {u \in shorter : Len(u) = n - 1},
                                          l \in TomlLines}

\* CONFIG_PATH before the program starts
ConfigFiles == {NoFile} \cup {File(t) : t \in TomlTexts(MaxLines)}

\* what the user types at a prompt for a path
PathInputs == {"/t", "/e", "e"}
is_absolute(path) == path \in {"/t", "/e", "/k"}

\* a call of write_bookmark_id_to_json(JSON_PATH, id) by one program: at
\* "call" before l.239, at "loaded" between l.239 and l.243, then
\* "returned", or "raised" when the load raised typer.Abort
ProcCall(id, at, stored_ids) == [id |-> id, at |-> at, stored_ids |-> stored_ids]
Procs == 1..MaxProcs
NoProcs == [p \in Procs |-> ProcCall(PyNone, "returned", <<>>)]

\* the ids the programs record
ProcArgs == {IdA, IdB, PyStr(<<"C">>)}

(***************************************************************************)
(* State.                                                                  *)
(***************************************************************************)
VARIABLES
    ereader_bookmarks,  \* what query_bookmarks_from_ereader returns
    json_file,          \* JSON_PATH, the ledger file
    md_files,           \* the documents of config.target_dir, by filename
    pc,                 \* "idle", or the position of the running import:
                        \* "add", "record", "finish"
    bookmark_selection, \* argument of the running or last import
    md_bookmarks_ids,   \* the ids import loaded for "new"
    bookmarks_to_save,  \* the bookmarks the loop of the import iterates
    idx,                \* position of the loop in bookmarks_to_save
    bookmarks_to_print, \* the rows of the table of the last `ls`
    op,                 \* the command or function called last
    outcome,            \* how it ended: "" running, "ok", or the exception
    call,               \* the ledger call of the last step, if it made one
    written,            \* bookmarks the import has passed to a successful
                        \* add_bookmark_to_md, in order
    recorded,           \* ids the import has recorded, in order
    json_at_start,      \* the ledger file when the last command started
    md_at_start,        \* the documents when the last command started
    prev,               \* the end of an import "new" that completed, kept
                        \* while no other command has started since: the
                        \* value of commands, the number of bookmarks it
                        \* imported, the documents and the ledger ids
    commands,           \* number of commands and direct calls started so far
    sqlite_filepath,    \* the database of the ereader, or no file
    local_sqlite,       \* TRUE while the copy of the database exists in
                        \* copy_dir
    all_bookmarks,      \* the list query_bookmarks_from_ereader builds
    cursor_bookmark,    \* the rows of the Bookmark table not yet fetched
    xpc,                \* position of query_bookmarks_from_ereader: "call",
                        \* "execute", "loop", "returned", "raised"
    xraised,            \* the exception it raised, "" if none
    config_file,        \* CONFIG_PATH, the file config.toml
    config,             \* the global config of main.py, once set
    spc,                \* position of the callback setup: "start",
                        \* "missing", "create", "ready", then "body" when
                        \* the command ran, or the exception that ended the
                        \* program: "Exit", "Abort"
    procs               \* the calls of write_bookmark_id_to_json made by
                        \* programs running at the same time: for each its
                        \* argument id, its position and its stored_ids

\* the variables of the commands, and those of the extractor run on its own
mvars == <<ereader_bookmarks, json_file, md_files, pc, bookmark_selection,
           md_bookmarks_ids, bookmarks_to_save, idx, bookmarks_to_print, op,
           outcome, call, written, recorded, json_at_start, md_at_start,
           prev, commands>>
xvars == <<sqlite_filepath, local_sqlite, all_bookmarks, cursor_bookmark,
           xpc, xraised>>
svars == <<config_file, config, spc>>
rvars == <<procs>>
ovars == <<svars, rvars>>
vars == <<mvars, xvars, ovars>>

NoCall == [fn |-> "none", arg |-> PyNone, confirm |-> FALSE,
           raised |-> "", printed |-> 0, asked |-> 0, ids |-> <<>>]

\* the record of a ledger call fn(arg) with result r
Called(fn, arg, confirm, r) ==
    [fn |-> fn, arg |-> arg, confirm |-> confirm /\ r.asked > 0,
     raised |-> r.raised, printed |-> r.printed, asked |-> r.asked,
     ids |-> r.ids]

NoPrev == [valid |-> FALSE, at |-> 0, imported |-> 0, md |-> NoDocuments,
           ids |-> <<>>]

Init ==
    /\ ereader_bookmarks \in Snapshots
    /\ json_file \in LedgerFiles
    /\ md_files \in InitialDocuments
    /\ pc = "idle"
    /\ bookmark_selection = <<>>
    /\ md_bookmarks_ids = <<>>
    /\ bookmarks_to_save = <<>>
    /\ idx = 1
    /\ bookmarks_to_print = <<>>
    /\ op = "none"
    /\ outcome = ""
    /\ call = NoCall
    /\ written = <<>>
    /\ recorded = <<>>
    /\ json_at_start = NoFile
    /\ md_at_start = NoDocuments
    /\ prev = NoPrev
    /\ commands = 0
    /\ sqlite_filepath = NoDatabase
    /\ local_sqlite = FALSE
    /\ all_bookmarks = <<>>
    /\ cursor_bookmark = <<>>
    /\ xpc = "returned"
    /\ xraised = ""
    /\ config_file = SavedConfig(LoadedConfig)
    /\ config = LoadedConfig
    /\ spc = "ready"
    /\ procs = NoProcs

\* a command starts when no import is running
Idle == pc = "idle" /\ commands < MaxCommands

(***************************************************************************)
(* kh import <bookmark_selection>: main.py, import_highlights.             *)
(***************************************************************************)
\* Up to the first loop iteration: the extraction, the match, and for "new"
\* the load of the ledger.
ImportStart(selection, confirm) ==
    LET branch == SelectionBranch(ereader_bookmarks, selection)
        q == IF branch = "new"
             THEN query_bookmark_ids_from_json(json_file, confirm)
             ELSE LRes(json_file, <<>>, "", 0, 0)
        todo == SelectedBookmarks(ereader_bookmarks, selection, q.ids)
    IN  /\ Idle
        /\ commands' = commands + 1
        /\ op' = "import"
        /\ bookmark_selection' = selection
        /\ call' = IF branch = "new"
                   THEN Called("query", PyNone, confirm, q) ELSE NoCall
        /\ json_file' = q.file
        /\ md_bookmarks_ids' = q.ids
        /\ json_at_start' = json_file
        /\ md_at_start' = md_files
        /\ written' = <<>>
        /\ recorded' = <<>>
        /\ idx' = 1
        /\ prev' = IF branch = "new" THEN prev ELSE NoPrev
        /\ IF q.raised # ""
           THEN /\ bookmarks_to_save' = <<>>
                /\ pc' = "idle"
                /\ outcome' = q.raised
           ELSE IF branch = "none"
           THEN /\ bookmarks_to_save' = <<>>
                /\ pc' = "idle"
                /\ outcome' = "SelectionError"
           ELSE /\ bookmarks_to_save' = todo
                /\ pc' = IF todo = <<>> THEN "finish" ELSE "add"
                /\ outcome' = ""
        /\ bookmarks_to_print' = <<>>
        /\ UNCHANGED <<ereader_bookmarks, md_files>>
        /\ UNCHANGED <<xvars, ovars>>

\* the loop body without its first statement: the document is not written
ImportAdd_skips_write ==
    /\ pc = "add"
    /\ pc' = "record"
    /\ call' = NoCall
    /\ UNCHANGED <<ereader_bookmarks, json_file, md_files, bookmark_selection,
                   md_bookmarks_ids, bookmarks_to_save, idx,
                   bookmarks_to_print, op, outcome, written, recorded,
                   json_at_start, md_at_start, prev, commands>>
    /\ UNCHANGED <<xvars, ovars>>

\* add_bookmark_to_md(bookmark, config.target_dir) returns
ImportAdd ==
    /\ pc = "add"
    /\ md_files' = add_bookmark_to_md(md_files, bookmarks_to_save[idx])
    /\ written' = Append(written, bookmarks_to_save[idx])
    /\ pc' = "record"
    /\ call' = NoCall
    /\ UNCHANGED <<ereader_bookmarks, json_file, bookmark_selection,
                   md_bookmarks_ids, bookmarks_to_save, idx,
                   bookmarks_to_print, op, outcome, recorded,
                   json_at_start, md_at_start, prev, commands>>
    /\ UNCHANGED <<xvars, ovars>>

\* the OSError of add_bookmark_to_md swallowed: the loop goes on to record
ImportAddFails_continues(opened, k) ==
    /\ pc = "add"
    /\ k < Len(md_text(md_files, bookmarks_to_save[idx]))
    /\ ~opened => k = 0
    /\ md_files' = add_bookmark_to_md_fails(md_files, bookmarks_to_save[idx],
                                            opened, k)
    /\ pc' = "record"
    /\ outcome' = "OSError"
    /\ call' = NoCall
    /\ prev' = NoPrev
    /\ UNCHANGED <<ereader_bookmarks, json_file, bookmark_selection,
                   md_bookmarks_ids, bookmarks_to_save, idx,
                   bookmarks_to_print, op, written, recorded,
                   json_at_start, md_at_start, commands>>
    /\ UNCHANGED <<xvars, ovars>>

\* add_bookmark_to_md raises OSError; nothing catches it and the command ends
ImportAddFails(opened, k) ==
    /\ pc = "add"
    /\ k < Len(md_text(md_files, bookmarks_to_save[idx]))
    /\ ~opened => k = 0
    /\ md_files' = add_bookmark_to_md_fails(md_files, bookmarks_to_save[idx],
                                            opened, k)
    /\ pc' = "idle"
    /\ outcome' = "OSError"
    /\ call' = NoCall
    /\ prev' = NoPrev
    /\ UNCHANGED <<ereader_bookmarks, json_file, bookmark_selection,
                   md_bookmarks_ids, bookmarks_to_save, idx,
                   bookmarks_to_print, op, written, recorded,
                   json_at_start, md_at_start, commands>>
    /\ UNCHANGED <<xvars, ovars>>

\* write_bookmark_id_to_json(JSON_PATH, bookmark["id"]) and the step of the
\* loop to the next bookmark
ImportRecord(confirm) ==
    LET r == write_bookmark_id_to_json(json_file, bookmarks_to_save[idx].id,
                                       confirm)
    IN  /\ pc = "record"
        /\ call' = Called("write", bookmarks_to_save[idx].id, confirm, r)
        /\ json_file' = r.file
        /\ IF r.raised # ""
           THEN /\ pc' = "idle"
                /\ outcome' = r.raised
                /\ prev' = NoPrev
                /\ UNCHANGED <<idx, recorded>>
           ELSE /\ recorded' = Append(recorded, bookmarks_to_save[idx].id)
                /\ idx' = idx + 1
                /\ pc' = IF idx = Len(bookmarks_to_save)
                         THEN "finish" ELSE "add"
                /\ UNCHANGED <<outcome, prev>>
        /\ UNCHANGED <<ereader_bookmarks, md_files, bookmark_selection,
                       md_bookmarks_ids, bookmarks_to_save,
                       bookmarks_to_print, op, written, json_at_start,
                       md_at_start, commands>>
        /\ UNCHANGED <<xvars, ovars>>

\* the console.print that ends the taken branch; the command returns
ImportFinish ==
    /\ pc = "finish"
    /\ pc' = "idle"
    /\ outcome' = "ok"
    /\ call' = NoCall
    /\ prev' = IF bookmark_selection = <<"new">>
               THEN [valid |-> TRUE, at |-> commands,
                     imported |-> Len(written), md |-> md_files,
                     ids |-> LedgerIds(json_file)]
               ELSE NoPrev
    /\ UNCHANGED <<ereader_bookmarks, json_file, md_files, bookmark_selection,
                   md_bookmarks_ids, bookmarks_to_save, idx,
                   bookmarks_to_print, op, written, recorded,
                   json_at_start, md_at_start, commands>>
    /\ UNCHANGED <<xvars, ovars>>

(***************************************************************************)
(* kh ls [--all]: main.py, list_highlights.                                *)
(***************************************************************************)
ListHighlights(all, confirm) ==
    LET q == IF all THEN LRes(json_file, <<>>, "", 0, 0)
             ELSE query_bookmark_ids_from_json(json_file, confirm)
    IN  /\ Idle
        /\ op' = IF all THEN "ls --all" ELSE "ls"
        /\ call' = IF all THEN NoCall ELSE Called("query", PyNone, confirm, q)
        /\ json_file' = q.file
        /\ md_bookmarks_ids' = q.ids
        /\ outcome' = IF q.raised # "" THEN q.raised ELSE "ok"
        /\ bookmarks_to_print' =
               IF q.raised # "" THEN <<>>
               ELSE IF all THEN ereader_bookmarks
               ELSE NotImported(ereader_bookmarks, q.ids)
        /\ prev' = NoPrev
        /\ bookmark_selection' = <<>>
        /\ bookmarks_to_save' = <<>>
        /\ idx' = 1
        /\ written' = <<>>
        /\ recorded' = <<>>
        /\ json_at_start' = json_file
        /\ md_at_start' = md_files
        /\ commands' = commands + 1
        /\ UNCHANGED <<ereader_bookmarks, md_files, pc>>
        /\ UNCHANGED <<xvars, ovars>>

(***************************************************************************)
(* The ledger functions called on their own, as the tests call them.       *)
(***************************************************************************)
LoadIds(confirm) ==
    LET q == query_bookmark_ids_from_json(json_file, confirm)
    IN  /\ Idle
        /\ op' = "query"
        /\ call' = Called("query", PyNone, confirm, q)
        /\ json_file' = q.file
        /\ outcome' = IF q.raised # "" THEN q.raised ELSE "ok"
        /\ prev' = NoPrev
        /\ md_bookmarks_ids' = <<>>
        /\ bookmarks_to_print' = <<>>
        /\ bookmark_selection' = <<>>
        /\ bookmarks_to_save' = <<>>
        /\ idx' = 1
        /\ written' = <<>>
        /\ recorded' = <<>>
        /\ json_at_start' = json_file
        /\ md_at_start' = md_files
        /\ commands' = commands + 1
        /\ UNCHANGED <<ereader_bookmarks, md_files, pc>>
        /\ UNCHANGED <<xvars, ovars>>

RecordId(id, confirm) ==
    LET r == write_bookmark_id_to_json(json_file, id, confirm)
    IN  /\ Idle
        /\ op' = "write"
        /\ call' = Called("write", id, confirm, r)
        /\ json_file' = r.file
        /\ outcome' = IF r.raised # "" THEN r.raised ELSE "ok"
        /\ prev' = NoPrev
        /\ md_bookmarks_ids' = <<>>
        /\ bookmarks_to_print' = <<>>
        /\ bookmark_selection' = <<>>
        /\ bookmarks_to_save' = <<>>
        /\ idx' = 1
        /\ written' = <<>>
        /\ recorded' = <<>>
        /\ json_at_start' = json_file
        /\ md_at_start' = md_files
        /\ commands' = commands + 1
        /\ UNCHANGED <<ereader_bookmarks, md_files, pc>>
        /\ UNCHANGED <<xvars, ovars>>

Next ==
    \/ /\ Idle
       /\ \E selection \in Selections :
              \E confirm \in (IF selection = <<"new">>
                               THEN Answers(json_file) ELSE {FALSE}) :
                  ImportStart(selection, confirm)
    \/ ImportAdd
    \/ \E opened \in BOOLEAN, k \in 0..MaxPartial : ImportAddFails(opened, k)
    \/ /\ pc = "record"
       /\ \E confirm \in Answers(json_file) : ImportRecord(confirm)
    \/ ImportFinish
    \/ /\ Idle
       /\ \E all \in BOOLEAN :
              \E confirm \in (IF all THEN {FALSE} ELSE Answers(json_file)) :
                  ListHighlights(all, confirm)
    \/ /\ Idle
       /\ \E confirm \in Answers(json_file) : LoadIds(confirm)
    \/ /\ Idle
       /\ \E confirm \in Answers(json_file) :
              \E id \in RecordArgs : RecordId(id, confirm)

Spec == Init /\ [][Next]_vars

(***************************************************************************)
(* query_bookmarks_from_ereader(sqlite_filepath, copy_dir), step by step,  *)
(* called on its own as its test calls it.                                 *)
(***************************************************************************)
InitExtract ==
    /\ ereader_bookmarks = <<>>
    /\ json_file = NoFile
    /\ md_files = NoDocuments
    /\ pc = "idle"
    /\ bookmark_selection = <<>>
    /\ md_bookmarks_ids = <<>>
    /\ bookmarks_to_save = <<>>
    /\ idx = 1
    /\ bookmarks_to_print = <<>>
    /\ op = "none"
    /\ outcome = ""
    /\ call = NoCall
    /\ written = <<>>
    /\ recorded = <<>>
    /\ json_at_start = NoFile
    /\ md_at_start = NoDocuments
    /\ prev = NoPrev
    /\ commands = 0
    /\ sqlite_filepath \in Databases
    /\ local_sqlite = FALSE
    /\ all_bookmarks = <<>>
    /\ cursor_bookmark = <<>>
    /\ xpc = "call"
    /\ xraised = ""
    /\ config_file = SavedConfig(LoadedConfig)
    /\ config = LoadedConfig
    /\ spc = "ready"
    /\ procs = NoProcs

\* the exception e leaves the function: nothing after the raising statement
\* runs
ExtractRaises(e) ==
    /\ xpc' = "raised"
    /\ xraised' = e
    /\ UNCHANGED <<all_bookmarks, cursor_bookmark>>

\* copy(sqlite_filepath, copy_dir).  FileNotFoundError is caught, the error
\* printed and typer.Abort raised; any other OSError of copy is not caught:
\* the one of opening the source leaves no copy, the one of reading it
\* leaves the part of the copy written so far
ExtractCopy ==
    /\ xpc = "call"
    /\ IF ~sqlite_filepath.exists
       THEN /\ ExtractRaises("Abort")
            /\ UNCHANGED local_sqlite
       ELSE IF sqlite_filepath.readable = "no"
       THEN /\ ExtractRaises("PermissionError")
            /\ UNCHANGED local_sqlite
       ELSE IF sqlite_filepath.readable = "partly"
       THEN /\ ExtractRaises("OSError")
            /\ local_sqlite' = TRUE
       ELSE /\ local_sqlite' = TRUE
            /\ xpc' = "execute"
            /\ UNCHANGED <<all_bookmarks, cursor_bookmark, xraised>>
    /\ UNCHANGED <<sqlite_filepath, mvars, ovars>>

\* sqlite3.connect, the two cursors, all_bookmarks = [] and
\* cursor_bookmark.execute(BM_QUERY)
ExtractExecute ==
    /\ xpc = "execute"
    /\ IF "Bookmark" \in sqlite_filepath.tables
       THEN /\ cursor_bookmark' = BM_QUERY(sqlite_filepath.Bookmark)
            /\ all_bookmarks' = <<>>
            /\ xpc' = "loop"
            /\ UNCHANGED xraised
       ELSE ExtractRaises("OperationalError")
    /\ UNCHANGED <<sqlite_filepath, local_sqlite, mvars, ovars>>

\* one iteration of the loop over the rows of cursor_bookmark
ExtractRow ==
    /\ xpc = "loop"
    /\ cursor_bookmark # <<>>
    /\ IF "content" \notin sqlite_filepath.tables
       THEN ExtractRaises("OperationalError")
       ELSE IF CONTENT_QUERY(sqlite_filepath.content,
                             Head(cursor_bookmark).VolumeID) = <<>>
       THEN \* content_query_result is None: None[0]
            ExtractRaises("TypeError")
       ELSE /\ all_bookmarks' =
                   Append(all_bookmarks,
                          current_bookmark(
                              Head(cursor_bookmark),
                              Head(CONTENT_QUERY(
                                       sqlite_filepath.content,
                                       Head(cursor_bookmark).VolumeID))))
            /\ cursor_bookmark' = Tail(cursor_bookmark)
            /\ UNCHANGED <<xpc, xraised>>
    /\ UNCHANGED <<sqlite_filepath, local_sqlite, mvars, ovars>>

\* the loop is over: connection.close(), local_sqlite.unlink(), return
ExtractReturn ==
    /\ xpc = "loop"
    /\ cursor_bookmark = <<>>
    /\ local_sqlite' = FALSE
    /\ xpc' = "returned"
    /\ UNCHANGED <<sqlite_filepath, all_bookmarks, cursor_bookmark, xraised,
                   mvars, ovars>>

NextExtract ==
    \/ ExtractCopy
    \/ ExtractExecute
    \/ ExtractRow
    \/ ExtractReturn

SpecExtract == InitExtract /\ [][NextExtract]_vars

(***************************************************************************)
(* One command from its first statement: `kh import` and `kh ls` call      *)
(* query_bookmarks_from_ereader(SQLITE_PATH, APP_PATH) and then run their  *)
(* body on the list it returned.                                           *)
(***************************************************************************)
\* the databases a command is run on: none, two that cannot be read, one
\* without tables, and one with a highlight and a marked page of one book
RunDatabases ==
    { NoDatabase, Unreadable("no"), Unreadable("partly"),
      Database({}, <<>>, <<>>),
      Database({"Bookmark", "content"},
               << BookmarkRow(<<"A">>, PyStr(<<" ", "a", NL, "b", NL>>),
                              PyNone, <<"v1">>),
                  BookmarkRow(<<"B">>, PyNone, PyNone, <<"v1">>) >>,
               ContentTable(<<"T">>, PyStr(<<"U">>))) }

InitRun ==
    /\ ereader_bookmarks = <<>>
    /\ json_file \in LedgerFiles
    /\ md_files \in InitialDocuments
    /\ pc = "idle"
    /\ bookmark_selection = <<>>
    /\ md_bookmarks_ids = <<>>
    /\ bookmarks_to_save = <<>>
    /\ idx = 1
    /\ bookmarks_to_print = <<>>
    /\ op = "none"
    /\ outcome = ""
    /\ call = NoCall
    /\ written = <<>>
    /\ recorded = <<>>
    /\ json_at_start = json_file
    /\ md_at_start = md_files
    /\ prev = NoPrev
    /\ commands = 0
    /\ sqlite_filepath \in RunDatabases
    /\ local_sqlite = FALSE
    /\ all_bookmarks = <<>>
    /\ cursor_bookmark = <<>>
    /\ xpc = "call"
    /\ xraised = ""
    /\ config_file = SavedConfig(LoadedConfig)
    /\ config = LoadedConfig
    /\ spc = "ready"
    /\ procs = NoProcs

\* ereader_bookmarks = query_bookmarks_from_ereader(SQLITE_PATH, APP_PATH):
\* the call returned and the body of the command is next
RunExtracted ==
    /\ xpc = "returned"
    /\ pc = "idle" /\ commands = 0
    /\ ereader_bookmarks' = all_bookmarks
    /\ xpc' = "body"
    /\ UNCHANGED <<json_file, md_files, pc, bookmark_selection,
                   md_bookmarks_ids, bookmarks_to_save, idx,
                   bookmarks_to_print, op, outcome, call, written, recorded,
                   json_at_start, md_at_start, prev, commands>>
    /\ UNCHANGED <<sqlite_filepath, local_sqlite, all_bookmarks,
                   cursor_bookmark, xraised, ovars>>

\* the call raised: neither command catches anything, the exception ends the
\* command (cmd) before its body
RunAborted(cmd) ==
    /\ xpc = "raised"
    /\ pc = "idle" /\ commands = 0
    /\ op' = cmd
    /\ outcome' = xraised
    /\ commands' = 1
    /\ UNCHANGED <<ereader_bookmarks, json_file, md_files, pc,
                   bookmark_selection, md_bookmarks_ids, bookmarks_to_save,
                   idx, bookmarks_to_print, call, written, recorded,
                   json_at_start, md_at_start, prev>>
    /\ UNCHANGED <<xvars, ovars>>

\* the body starts once, after the extraction
BodyStarts == xpc = "body" /\ pc = "idle" /\ commands = 0

NextRun ==
    \/ ExtractCopy
    \/ ExtractExecute
    \/ ExtractRow
    \/ ExtractReturn
    \/ RunExtracted
    \/ \E cmd \in {"import", "ls", "ls --all"} : RunAborted(cmd)
    \/ /\ BodyStarts
       /\ \E selection \in Selections :
              \E confirm \in (IF selection = <<"new">>
                               THEN Answers(json_file) ELSE {FALSE}) :
                  ImportStart(selection, confirm)
    \/ ImportAdd
    \/ \E opened \in BOOLEAN, k \in 0..MaxPartial : ImportAddFails(opened, k)
    \/ /\ pc = "record"
       /\ \E confirm \in Answers(json_file) : ImportRecord(confirm)
    \/ ImportFinish
    \/ /\ BodyStarts
       /\ \E all \in BOOLEAN :
              \E confirm \in (IF all THEN {FALSE} ELSE Answers(json_file)) :
                  ListHighlights(all, confirm)

SpecRun == InitRun /\ [][NextRun]_vars

(***************************************************************************)
(* The start of the program: main.py, the callback setup, and               *)
(* functions.py, setup_missing_config.                                     *)
(***************************************************************************)
InitSetup ==
    /\ ereader_bookmarks = <<>>
    /\ json_file = NoFile
    /\ md_files = NoDocuments
    /\ pc = "idle"
    /\ bookmark_selection = <<>>
    /\ md_bookmarks_ids = <<>>
    /\ bookmarks_to_save = <<>>
    /\ idx = 1
    /\ bookmarks_to_print = <<>>
    /\ op = "none"
    /\ outcome = ""
    /\ call = NoCall
    /\ written = <<>>
    /\ recorded = <<>>
    /\ json_at_start = NoFile
    /\ md_at_start = NoDocuments
    /\ prev = NoPrev
    /\ commands = 0
    /\ sqlite_filepath = NoDatabase
    /\ local_sqlite = FALSE
    /\ all_bookmarks = <<>>
    /\ cursor_bookmark = <<>>
    /\ xpc = "returned"
    /\ xraised = ""
    /\ config_file \in ConfigFiles
    /\ config = NoConfig
    /\ spc = "start"
    /\ procs = NoProcs

\* setup, l.53-62: Config.from_file(CONFIG_PATH); ConfigError leads to
\* setup_missing_config, any other exception leaves the callback
SetupFromFile ==
    /\ spc = "start"
    /\ LET r == from_file(config_file)
       IN  /\ config' = r.config
           /\ spc' = IF r.exc = "" THEN "ready"
                     ELSE IF r.exc = "ConfigError" THEN "missing"
                     ELSE r.exc
    /\ UNCHANGED <<config_file, mvars, xvars, rvars>>

\* setup_missing_config, l.50-51 and 67-71: the question, and typer.Abort
\* when the answer is no
SetupMissingAsk(confirm) ==
    /\ spc = "missing"
    /\ spc' = IF confirm THEN "create" ELSE "Abort"
    /\ UNCHANGED <<config_file, config, mvars, xvars, rvars>>

\* setup_missing_config, l.52-65, then setup, l.59: one round of the loop
\* of create_interactively; with two absolute paths the Config is saved
\* (FileNotFoundError when the directory of the file is missing, which
\* becomes typer.Abort) and setup raises typer.Exit
SetupCreate(ereader_input, target_input, app_dir) ==
    /\ spc = "create"
    /\ config_file.exists => app_dir
    /\ IF is_absolute(ereader_input) /\ is_absolute(target_input)
       THEN IF app_dir
            THEN /\ config' = ConfigOf(target_input, ereader_input)
                 /\ config_file' = SavedConfig(config')
                 /\ spc' = "Exit"
            ELSE /\ spc' = "Abort"
                 /\ UNCHANGED <<config_file, config>>
       ELSE UNCHANGED <<config_file, config, spc>>
    /\ UNCHANGED <<mvars, xvars, rvars>>

\* the command function (list_highlights, import_highlights) is entered
\* once the callback has returned
CommandBody(cmd) ==
    /\ spc = "ready"
    /\ spc' = "body"
    /\ op' = cmd
    /\ UNCHANGED <<ereader_bookmarks, json_file, md_files, pc,
                   bookmark_selection, md_bookmarks_ids, bookmarks_to_save,
                   idx, bookmarks_to_print, outcome, call, written, recorded,
                   json_at_start, md_at_start, prev, commands>>
    /\ UNCHANGED <<config_file, config, xvars, rvars>>

NextSetup ==
    \/ SetupFromFile
    \/ \E confirm \in BOOLEAN : SetupMissingAsk(confirm)
    \/ \E e \in PathInputs, t \in PathInputs, d \in BOOLEAN : SetupCreate(e, t, d)
    \/ \E cmd \in {"ls", "import"} : CommandBody(cmd)

SpecSetup == InitSetup /\ [][NextSetup]_vars

(***************************************************************************)
(* Two programs on one ledger: functions.py, write_bookmark_id_to_json,    *)
(* whose load (l.239) and store (l.243-245) are separate file operations   *)
(* with no lock between them.                                              *)
(***************************************************************************)
InitRace ==
    /\ ereader_bookmarks = <<>>
    /\ json_file \in LedgerFiles
    /\ md_files = NoDocuments
    /\ pc = "idle"
    /\ bookmark_selection = <<>>
    /\ md_bookmarks_ids = <<>>
    /\ bookmarks_to_save = <<>>
    /\ idx = 1
    /\ bookmarks_to_print = <<>>
    /\ op = "none"
    /\ outcome = ""
    /\ call = NoCall
    /\ written = <<>>
    /\ recorded = <<>>
    /\ json_at_start = json_file
    /\ md_at_start = NoDocuments
    /\ prev = NoPrev
    /\ commands = 0
    /\ sqlite_filepath = NoDatabase
    /\ local_sqlite = FALSE
    /\ all_bookmarks = <<>>
    /\ cursor_bookmark = <<>>
    /\ xpc = "returned"
    /\ xraised = ""
    /\ config_file = SavedConfig(LoadedConfig)
    /\ config = LoadedConfig
    /\ spc = "ready"
    /\ procs \in [Procs -> {ProcCall(id, "call", <<>>) : id \in ProcArgs}]

\* l.239: stored_ids = query_bookmark_ids_from_json(json_filepath), which
\* creates an absent ledger and asks about a corrupt one
RaceLoad(p, confirm) ==
    /\ procs[p].at = "call"
    /\ LET q == query_bookmark_ids_from_json(json_file, confirm)
       IN  /\ json_file' = q.file
           /\ procs' = [procs EXCEPT ![p] =
                  ProcCall(procs[p].id,
                           IF q.raised # "" THEN "raised" ELSE "loaded",
                           q.ids)]
    /\ UNCHANGED <<ereader_bookmarks, md_files, pc, bookmark_selection,
                   md_bookmarks_ids, bookmarks_to_save, idx,
                   bookmarks_to_print, op, outcome, call, written, recorded,
                   json_at_start, md_at_start, prev, commands>>
    /\ UNCHANGED <<xvars, svars>>

\* a store that reads the ledger again when it writes
RaceStore_reloads(p) ==
    /\ procs[p].at = "loaded"
    /\ json_file' = File(JsonDumps(StoredIds(LedgerIds(json_file), procs[p].id)))
    /\ procs' = [procs EXCEPT ![p] =
           ProcCall(procs[p].id, "returned",
                    StoredIds(LedgerIds(json_file), procs[p].id))]
    /\ UNCHANGED <<ereader_bookmarks, md_files, pc, bookmark_selection,
                   md_bookmarks_ids, bookmarks_to_save, idx,
                   bookmarks_to_print, op, outcome, call, written, recorded,
                   json_at_start, md_at_start, prev, commands>>
    /\ UNCHANGED <<xvars, svars>>

\* l.240-245: the append to the list loaded at l.239 and the write_text of
\* that list over whatever the file holds by now
RaceStore(p) ==
    /\ procs[p].at = "loaded"
    /\ json_file' = File(JsonDumps(StoredIds(procs[p].stored_ids, procs[p].id)))
    /\ procs' = [procs EXCEPT ![p] =
           ProcCall(procs[p].id, "returned",
                    StoredIds(procs[p].stored_ids, procs[p].id))]
    /\ UNCHANGED <<ereader_bookmarks, md_files, pc, bookmark_selection,
                   md_bookmarks_ids, bookmarks_to_save, idx,
                   bookmarks_to_print, op, outcome, call, written, recorded,
                   json_at_start, md_at_start, prev, commands>>
    /\ UNCHANGED <<xvars, svars>>

NextRace ==
    \/ \E p \in Procs : \E confirm \in Answers(json_file) : RaceLoad(p, confirm)
    \/ \E p \in Procs : RaceStore(p)

SpecRace == InitRace /\ [][NextRace]_vars

(***************************************************************************)
(* Properties.                                                             *)
(***************************************************************************)
\* the elements of a sequence
Range(s) == {s[j] : j \in 1..Len(s)}

\* the id list of the ledger when the last command started; a list the
\* command could not load (no file, or a corrupt file it reset) is empty
StartIds == LedgerIds(json_at_start)

\* the documents after add_bookmark_to_md has returned for each of bms in turn
RECURSIVE ApplyAll(_, _)
ApplyAll(files, bms) ==
    IF bms = <<>> THEN files
    ELSE ApplyAll(add_bookmark_to_md(files, Head(bms)), Tail(bms))

\* the position of a row of the snapshot
Pos(bm) == CHOOSE j \in 1..Len(ereader_bookmarks) : ereader_bookmarks[j] = bm

\* sel holds rows of the snapshot in row order
InExtractionOrder(sel) ==
    /\ \A j \in 1..Len(sel) : InList(sel[j], ereader_bookmarks)
    /\ \A j, l \in 1..Len(sel) : j < l => Pos(sel[j]) < Pos(sel[l])

\* the positions of the rows whose id is no element of ids
Unlisted(ids) ==
    {j \in 1..Len(ereader_bookmarks) :
         \A l \in 1..Len(ids) : ids[l] # ereader_bookmarks[j].id}

\* the n-th smallest element of a set of positions
Nth(S, n) == CHOOSE i \in S : Cardinality({l \in S : l <= i}) = n

\* sel is exactly the rows whose id is no element of ids, in row order
IsNewSelection(sel, ids) ==
    /\ Len(sel) = Cardinality(Unlisted(ids))
    /\ \A n \in 1..Len(sel) : sel[n] = ereader_bookmarks[Nth(Unlisted(ids), n)]

\* C1: an import "new" that directly follows a completed import "new" over
\* the same snapshot selects nothing, appends nothing to any document and
\* leaves the id list of the ledger as the first run left it.
C1_RerunNewAppendsNothing ==
    (prev.valid /\ commands > prev.at) =>
        /\ op = "import" /\ bookmark_selection = <<"new">>
        /\ outcome \in {"", "ok"}
        /\ bookmarks_to_save = <<>> /\ written = <<>> /\ recorded = <<>>
        /\ md_files = prev.md
        /\ LedgerIds(json_file) = prev.ids

\* the second run is about to end and the first one had imported two or more
C1_Witness ==
    /\ prev.valid /\ commands > prev.at /\ pc = "finish"
    /\ prev.imported >= 2
    /\ md_files # md_at_start \/ prev.md # NoDocuments

\* C2: with "new", import selects, and ls without --all shows, exactly the
\* extracted bookmarks whose id is not in the id list the ledger had when the
\* command started, in extraction order; import writes none whose id is in it.
C2_NewSelectsUnimported ==
    /\ (op = "import" /\ bookmark_selection = <<"new">> /\ outcome # "Abort")
           => /\ IsNewSelection(bookmarks_to_save, StartIds)
              /\ \A j \in 1..Len(written) : ~InList(written[j].id, StartIds)
              /\ outcome = "ok" => written = bookmarks_to_save
    /\ (op = "ls" /\ outcome # "Abort")
           => IsNewSelection(bookmarks_to_print, StartIds)

\* an import "new" completed that took some bookmarks and left others out
C2_Witness ==
    /\ op = "import" /\ bookmark_selection = <<"new">> /\ outcome = "ok"
    /\ written # <<>>
    /\ Len(written) < Len(ereader_bookmarks)
    /\ StartIds # <<>>

\* C3: an import, whatever the selector, takes the selected bookmarks one at
\* a time in extraction order and records an id only after the document
\* write of its bookmark: every id the ledger has gained since the start of
\* the run belongs to a bookmark the run has written.
C3_WriteBeforeRecord ==
    op = "import" =>
        /\ InExtractionOrder(bookmarks_to_save)
        /\ Len(written) <= Len(bookmarks_to_save)
        /\ written = SubSeq(bookmarks_to_save, 1, Len(written))
        /\ Len(recorded) <= Len(written)
        /\ Len(written) <= Len(recorded) + 1
        /\ \A j \in 1..Len(recorded) : recorded[j] = written[j].id
        /\ pc = "record" => (Len(written) = idx /\ Len(recorded) + 1 = idx)
        /\ pc = "add" => (Len(written) + 1 = idx /\ Len(recorded) + 1 = idx)
        /\ \A x \in Range(LedgerIds(json_file)) \ Range(StartIds) :
               \E j \in 1..Len(written) : written[j].id = x
        /\ outcome # "OSError" => md_files = ApplyAll(md_at_start, written)

\* the second bookmark of an import by title is written and not yet recorded
C3_Witness ==
    /\ op = "import" /\ bookmark_selection = <<"T">>
    /\ pc = "record" /\ idx = 2
    /\ Range(LedgerIds(json_file)) # Range(StartIds)

\* C4: when add_bookmark_to_md fails for the k-th selected bookmark the run
\* is over: the ids of the k-1 bookmarks before it are in the ledger, and
\* neither its id nor the id of a later bookmark has been added by the run;
\* the documents are those the k-1 writes left, but for what the failing
\* write put into its own document.
C4_WriteFailureHalts ==
    (op = "import" /\ outcome = "OSError") =>
        LET k == idx
            failing == bookmarks_to_save[k]
            before == ApplyAll(md_at_start, written)
        IN  /\ pc = "idle"
            /\ k \in 1..Len(bookmarks_to_save)
            /\ written = SubSeq(bookmarks_to_save, 1, k - 1)
            /\ Len(recorded) = k - 1
            /\ \A j \in 1..(k - 1) :
                   InList(bookmarks_to_save[j].id, LedgerIds(json_file))
            /\ Range(LedgerIds(json_file)) \ Range(StartIds)
                   = {bookmarks_to_save[j].id : j \in 1..(k - 1)}
                         \ Range(StartIds)
            /\ \A name \in Filenames :
                   name # md_filename(failing) => md_files[name] = before[name]
            /\ \/ md_files = before
               \/ \E n \in 0..MaxPartial :
                      md_files[md_filename(failing)] =
                          File((IF before[md_filename(failing)].exists
                                THEN before[md_filename(failing)].content
                                ELSE <<>>)
                               \o SubSeq(md_text(before, failing), 1, n))

\* the write of the second of three selected bookmarks has failed
C4_Witness ==
    /\ op = "import" /\ outcome = "OSError"
    /\ idx = 2 /\ Len(bookmarks_to_save) = 3
    /\ Len(recorded) = 1
    /\ InList(bookmarks_to_save[1].id, LedgerIds(json_file))
    /\ ~InList(bookmarks_to_save[2].id, LedgerIds(json_file))

\* every element is a string or null
AllStrOrNull(ids) == \A j \in 1..Len(ids) : ids[j].t \in {"str", "null"}

\* EMPTY_JSON_CONTENTS of the tests: {"imported_bookmark_ids": []}
EMPTY_JSON_CONTENTS ==
    <<P("{"), Tok("str", <<"imported_bookmark_ids">>), P(":"), P("ws"),
      P("["), P("]"), P("}")>>

\* the content is JSON for a mapping that binds imported_bookmark_ids to a
\* list
HoldsIdList(file) ==
    LET r == JsonLoads(file.content) IN
    /\ file.exists
    /\ r.ok
    /\ r.val.t = "dict"
    /\ \E j \in 1..Len(r.val.pairs) :
           /\ r.val.pairs[j].key = <<"imported_bookmark_ids">>
           /\ r.val.pairs[j].val.t = "list"
           /\ \A l \in (j + 1)..Len(r.val.pairs) :
                  r.val.pairs[l].key # <<"imported_bookmark_ids">>

\* the content is JSON for a mapping whose single key imported_bookmark_ids
\* is bound to a list of strings and nulls
HoldsOnlyIdList(file) ==
    LET r == JsonLoads(file.content) IN
    /\ file.exists
    /\ r.ok
    /\ r.val.t = "dict"
    /\ Len(r.val.pairs) = 1
    /\ r.val.pairs[1].key = <<"imported_bookmark_ids">>
    /\ r.val.pairs[1].val.t = "list"
    /\ AllStrOrNull(r.val.pairs[1].val.items)

\* the ledger file exists and is structurally invalid
Corrupt(file) == file.exists /\ ~HoldsIdList(file)

\* C5: on a valid ledger whose list L holds strings and nulls,
\* write_bookmark_id_to_json(x) leaves the list L if x is in L and L with x
\* at the end otherwise; a second call with x changes nothing, and a load
\* returns that list.
C5_RecordIdAppendsOnce ==
    [][ (call'.fn = "write" /\ HoldsIdList(json_file)
             /\ AllStrOrNull(LedgerIds(json_file)))
        => LET L == LedgerIds(json_file)
               x == call'.arg
               expected == IF \E j \in 1..Len(L) : L[j] = x
                           THEN L ELSE L \o <<x>>
               again == write_bookmark_id_to_json(json_file', x, FALSE)
               load == query_bookmark_ids_from_json(json_file', FALSE)
           IN  /\ call'.raised = "" /\ call'.asked = 0
               /\ HoldsIdList(json_file')
               /\ LedgerIds(json_file') = expected
               /\ again.raised = "" /\ again.file = json_file'
               /\ load.raised = "" /\ load.ids = expected
               /\ load.file = json_file' ]_vars

\* a direct call has put a new id behind the two or more the ledger held
C5_Witness ==
    /\ op = "write" /\ outcome = "ok"
    /\ HoldsIdList(json_at_start)
    /\ Len(StartIds) >= 2
    /\ AllStrOrNull(StartIds)
    /\ ~InList(call.arg, StartIds)
    /\ LedgerIds(json_file) = Append(StartIds, call.arg)

C7_MissingLedgerIsCreated ==
    [][ (call'.fn = "query" /\ ~json_file.exists)
        => /\ json_file' = File(EMPTY_JSON_CONTENTS)
           /\ call'.ids = <<>>
           /\ call'.raised = ""
           /\ call'.printed = 0 /\ call'.asked = 0 ]_vars

\* a direct load has created the ledger
C7_Witness ==
    /\ op = "query" /\ outcome = "ok"
    /\ ~json_at_start.exists
    /\ json_file = File(EMPTY_JSON_CONTENTS)
    /\ call.ids = <<>> /\ call.asked = 0

\* the load of the last step returned the ids of the file without a question
Accepted == call.fn = "query" /\ call.asked = 0 /\ call.raised = ""

\* C8 as claimed: a ledger file is accepted if and only if it is a mapping
\* with the single key imported_bookmark_ids bound to a list of strings and
\* nulls.
C8_AcceptsOnlyStrictLedger ==
    (call.fn = "query" /\ json_at_start.exists)
        => (Accepted <=> HoldsOnlyIdList(json_at_start))

\* C8 as the code has it: a ledger file is accepted if and only if it is
\* JSON for a mapping that binds imported_bookmark_ids to a list; other keys
\* and the types of the elements are not looked at.  An accepted file is
\* left as it is and its list is returned.
C8_AcceptsAnyIdList ==
    (call.fn = "query" /\ json_at_start.exists)
        => /\ Accepted <=> HoldsIdList(json_at_start)
           /\ Accepted => /\ json_file = json_at_start
                          /\ call.ids = LedgerIds(json_at_start)

\* a ledger with a second key, or with a number in the list, was accepted
C8_Witness ==
    /\ call.fn = "query" /\ json_at_start.exists
    /\ Accepted
    /\ ~HoldsOnlyIdList(json_at_start)
    /\ call.ids # <<>>

\* the lines of a text: the parts between its newlines
RECURSIVE LinesFrom(_, _, _)
LinesFrom(s, cur, acc) ==
    IF s = <<>> THEN Append(acc, cur)
    ELSE IF Head(s) = "\n" THEN LinesFrom(Tail(s), <<>>, Append(acc, cur))
    ELSE LinesFrom(Tail(s), Append(cur, Head(s)), acc)

\* every line with "> " before it, the lines joined by newlines
RECURSIVE QuoteLines(_)
QuoteLines(lines) ==
    IF Len(lines) = 1 THEN <<">", " ">> \o lines[1]
    ELSE <<">", " ">> \o lines[1] \o <<"\n">> \o QuoteLines(Tail(lines))

Quoted(text) == QuoteLines(LinesFrom(text, <<>>, <<>>))

\* the block add_bookmark_to_md formats: the quoted text and, if the
\* annotation is a non-empty string, a blank line and the annotation
FormattedBlock(bm) ==
    IF bm.annotation.t = "str" /\ Len(bm.annotation.v) > 0
    THEN Quoted(bm.text) \o <<"\n", "\n">> \o bm.annotation.v
    ELSE Quoted(bm.text)

\* the step is a call of add_bookmark_to_md that returns
AddReturns == pc = "add" /\ pc' = "record"

\* the bookmark the loop of the import is at
CurrentBookmark == bookmarks_to_save[idx]

\* C9 as claimed: add_bookmark_to_md creates a document that does not exist
\* with the formatted block as its whole content, the first quoted line at
\* the very start of the file.
C9_NewDocumentIsTheBlock ==
    [][ (AddReturns /\ ~md_files[md_filename(CurrentBookmark)].exists)
        => md_files'[md_filename(CurrentBookmark)]
               = File(FormattedBlock(CurrentBookmark)) ]_vars

\* C9 as the code has it: add_bookmark_to_md creates a document that does
\* not exist with one newline followed by the formatted block, no separator;
\* for a bookmark without annotation that is a newline and the quoted text,
\* nothing after it.  No other document changes.
C9_NewDocumentIsNewlineThenBlock ==
    [][ (AddReturns /\ ~md_files[md_filename(CurrentBookmark)].exists)
        => /\ md_files'[md_filename(CurrentBookmark)]
                  = File(<<"\n">> \o FormattedBlock(CurrentBookmark))
           /\ CurrentBookmark.annotation = PyNone
                  => md_files'[md_filename(CurrentBookmark)].content
                         = <<"\n">> \o Quoted(CurrentBookmark.text)
           /\ \A name \in Filenames \ {md_filename(CurrentBookmark)} :
                  md_files'[name] = md_files[name] ]_vars

\* the import has just created the document of a bookmark without
\* annotation whose text has several lines
C9_Witness ==
    /\ op = "import" /\ pc = "record" /\ idx = 1
    /\ ~md_at_start[md_filename(CurrentBookmark)].exists
    /\ md_files[md_filename(CurrentBookmark)].exists
    /\ CurrentBookmark.annotation = PyNone
    /\ Len(LinesFrom(CurrentBookmark.text, <<>>, <<>>)) > 1

\* C10: when the document of the bookmark exists with content P,
\* add_bookmark_to_md leaves P, then "\n\n***\n\n", then the formatted
\* block of the bookmark; no other document changes.
C10_AppendKeepsPriorContent ==
    [][ (AddReturns /\ md_files[md_filename(CurrentBookmark)].exists)
        => /\ md_files'[md_filename(CurrentBookmark)]
                  = File(md_files[md_filename(CurrentBookmark)].content
                             \o <<"\n", "\n", "*", "*", "*", "\n", "\n">>
                             \o FormattedBlock(CurrentBookmark))
           /\ \A name \in Filenames \ {md_filename(CurrentBookmark)} :
                  md_files'[name] = md_files[name] ]_vars

\* the import has just appended an annotated bookmark to a document that
\* held text before the import started
C10_Witness ==
    /\ op = "import" /\ pc = "record" /\ idx = 1
    /\ md_at_start[md_filename(CurrentBookmark)].exists
    /\ md_at_start[md_filename(CurrentBookmark)].content # <<>>
    /\ CurrentBookmark.annotation.t = "str"
    /\ CurrentBookmark.annotation.v # <<>>
    /\ Len(md_files[md_filename(CurrentBookmark)].content)
           > Len(md_at_start[md_filename(CurrentBookmark)].content)

\* the block with the annotation of every bookmark whose annotation is not
\* null, the empty string included
ClaimedBlock(bm) ==
    IF bm.annotation # PyNone
    THEN Quoted(bm.text) \o <<"\n", "\n">> \o bm.annotation.v
    ELSE Quoted(bm.text)

\* what the document of the current bookmark holds before the block: a new
\* document one newline, an existing one its content and the separator
BeforeBlock ==
    IF md_files[md_filename(CurrentBookmark)].exists
    THEN md_files[md_filename(CurrentBookmark)].content
             \o <<"\n", "\n", "*", "*", "*", "\n", "\n">>
    ELSE <<"\n">>

\* C11 as claimed: the block add_bookmark_to_md writes is the quoted text
\* and, whenever the annotation is not null, the empty string included, a
\* blank line and the annotation.
C11_BlockHasAnyAnnotation ==
    [][ AddReturns
        => md_files'[md_filename(CurrentBookmark)].content
               = BeforeBlock \o ClaimedBlock(CurrentBookmark) ]_vars

\* C11 as the code has it: the block is the text with "> " before every
\* line; a blank line and the annotation verbatim follow when the annotation
\* is a non-empty string, and nothing follows when the annotation is null or
\* the empty string.
C11_BlockHasNonEmptyAnnotation ==
    [][ AddReturns
        => LET bm == CurrentBookmark
               doc == md_files'[md_filename(bm)].content
               block == SubSeq(doc, Len(BeforeBlock) + 1, Len(doc))
           IN  /\ SubSeq(doc, 1, Len(BeforeBlock)) = BeforeBlock
               /\ (bm.annotation.t = "str" /\ bm.annotation.v # <<>>)
                      => block = Quoted(bm.text) \o <<"\n", "\n">>
                                     \o bm.annotation.v
               /\ (bm.annotation = PyNone \/ bm.annotation = PyStr(<<>>))
                      => block = Quoted(bm.text) ]_vars

\* the import has just written a bookmark whose annotation is the empty
\* string: its document ends with the quoted text
C11_Witness ==
    /\ op = "import" /\ pc = "record" /\ outcome = ""
    /\ CurrentBookmark.annotation = PyStr(<<>>)
    /\ md_files[md_filename(CurrentBookmark)].exists
    /\ md_files # md_at_start

\* s is a prefix of t
IsPrefix(s, t) == Len(s) <= Len(t) /\ SubSeq(t, 1, Len(s)) = s

\* C12: documents are append-only.  Over every step of every sequence of
\* commands, failing writes and aborted runs included, a document that
\* exists still exists after the step and its content before the step is a
\* prefix of its content after it.
C12_DocumentsAppendOnly ==
    [][ \A name \in Filenames :
            md_files[name].exists
                => /\ md_files'[name].exists
                   /\ IsPrefix(md_files[name].content,
                               md_files'[name].content) ]_vars

\* a second command, an import, has ended on a failing write after it had
\* put text behind what a document held when it started
C12_Witness ==
    /\ commands = 2 /\ op = "import" /\ outcome = "OSError"
    /\ \E name \in Filenames :
           /\ md_at_start[name].exists
           /\ md_at_start[name].content # <<>>
           /\ Len(md_files[name].content) > Len(md_at_start[name].content)
           /\ IsPrefix(md_at_start[name].content, md_files[name].content)

\* the whitespace-separated tokens of a selector: its maximal runs of atoms
\* that are no whitespace
TokenSet(sel) ==
    {SubSeq(sel, i, j) : <<i, j>> \in
        {ij \in (1..Len(sel)) \X (1..Len(sel)) :
            /\ ij[1] <= ij[2]
            /\ \A l \in ij[1]..ij[2] : sel[l] \notin {" ", "\n"}
            /\ ij[1] = 1 \/ sel[ij[1] - 1] \in {" ", "\n"}
            /\ ij[2] = Len(sel) \/ sel[ij[2] + 1] \in {" ", "\n"}}}

\* the rows of the snapshot at the positions S, in row order
RowsAt(S) == [n \in 1..Cardinality(S) |-> ereader_bookmarks[Nth(S, n)]]

\* every token of the selector is the id of a row
IsIdList(sel) ==
    \A t \in TokenSet(sel) :
        \E j \in 1..Len(ereader_bookmarks) : ereader_bookmarks[j].id = PyStr(t)

\* the positions of the rows whose id is a token of the selector
RowsWithTokenId(sel) ==
    {j \in 1..Len(ereader_bookmarks) :
         \E t \in TokenSet(sel) : ereader_bookmarks[j].id = PyStr(t)}

\* C13: for a selector other than "new" and "all" whose every token is the
\* id of an extracted bookmark, the import processes exactly the extracted
\* bookmarks whose id is a token, each once and in extraction order, whatever
\* the ledger and the documents hold.
C13_IdListSelectsByIdInRowOrder ==
    (/\ op = "import"
     /\ bookmark_selection \notin {<<"new">>, <<"all">>}
     /\ IsIdList(bookmark_selection))
        => /\ bookmarks_to_save = RowsAt(RowsWithTokenId(bookmark_selection))
           /\ written = SubSeq(bookmarks_to_save, 1, Len(written))
           /\ outcome = "ok" => written = bookmarks_to_save
           /\ outcome \notin {"SelectionError"}

\* the selector "B  A B" over the rows A, B, C: A then B were written, once
\* each
C13_Witness ==
    /\ op = "import" /\ outcome = "ok"
    /\ bookmark_selection = <<"B", " ", " ", "A", " ", "B">>
    /\ Len(ereader_bookmarks) >= 3
    /\ written = SubSeq(ereader_bookmarks, 1, 2)
    /\ written[1].id = PyStr(<<"A">>)

\* the positions of the rows with the title, and with the author, sel
RowsWithTitle(sel) ==
    {j \in 1..Len(ereader_bookmarks) : ereader_bookmarks[j].title = sel}
RowsWithAuthor(sel) ==
    {j \in 1..Len(ereader_bookmarks) : ereader_bookmarks[j].author = sel}

\* C14: a selector other than "new" and "all" is resolved as an id list
\* first, then as a title, then as an author, and one resolution only is
\* used: an id list selects by id even if it is a title or an author; a
\* selector that is no id list and is a title selects the rows with that
\* title and no other, even if it is an author; the rows of an author are
\* selected only when the selector is neither an id list nor a title.
C14_IdListThenTitleThenAuthor ==
    (op = "import" /\ bookmark_selection \notin {<<"new">>, <<"all">>})
        => LET sel == bookmark_selection IN
           /\ IsIdList(sel)
                  => bookmarks_to_save = RowsAt(RowsWithTokenId(sel))
           /\ (~IsIdList(sel) /\ RowsWithTitle(sel) # {})
                  => bookmarks_to_save = RowsAt(RowsWithTitle(sel))
           /\ (~IsIdList(sel) /\ RowsWithTitle(sel) = {}
                   /\ RowsWithAuthor(sel) # {})
                  => bookmarks_to_save = RowsAt(RowsWithAuthor(sel))
           /\ (~IsIdList(sel) /\ RowsWithTitle(sel) = {}
                   /\ RowsWithAuthor(sel) = {})
                  => bookmarks_to_save = <<>>

\* the selector is the title of one book and the author of another: the
\* run has written the rows of the title, and none of the author
C14_Witness ==
    /\ op = "import" /\ outcome = "ok"
    /\ ~IsIdList(bookmark_selection)
    /\ RowsWithTitle(bookmark_selection) # {}
    /\ RowsWithAuthor(bookmark_selection) # {}
    /\ written = RowsAt(RowsWithTitle(bookmark_selection))

\* the selector is the author of two rows and no title: both were written
C14_WitnessAuthor ==
    /\ op = "import" /\ outcome = "ok"
    /\ ~IsIdList(bookmark_selection)
    /\ RowsWithTitle(bookmark_selection) = {}
    /\ Len(written) = 2
    /\ written = RowsAt(RowsWithAuthor(bookmark_selection))

\* the selector names no row: no token of it is an id, and it is no title
\* and no author
MatchesNothing(sel) ==
    /\ RowsWithTokenId(sel) = {}
    /\ RowsWithTitle(sel) = {}
    /\ RowsWithAuthor(sel) = {}

\* C15: an import whose selector, other than "new" and "all", matches no
\* id, no title and no author, the empty selector included, reports the
\* selection error and returns; it writes no document and leaves the ledger
\* as it was.
C15_NoMatchReportsSelectionError ==
    (/\ op = "import"
     /\ bookmark_selection \notin {<<"new">>, <<"all">>}
     /\ MatchesNothing(bookmark_selection))
        => /\ outcome = "SelectionError"
           /\ pc = "idle"
           /\ written = <<>>
           /\ md_files = md_at_start
           /\ json_file = json_at_start

\* C16: an import "all" takes every extracted bookmark, in extraction
\* order, whether or not its id is in the ledger; when the run completes
\* each has been written to its document once, in that order, and the id of
\* each is in the ledger.
C16_AllWritesEveryBookmark ==
    (op = "import" /\ bookmark_selection = <<"all">>)
        => /\ bookmarks_to_save = ereader_bookmarks
           /\ written = SubSeq(ereader_bookmarks, 1, Len(written))
           /\ outcome # "SelectionError"
           /\ outcome = "ok"
                  => /\ written = ereader_bookmarks
                     /\ md_files = ApplyAll(md_at_start, ereader_bookmarks)
                     /\ \A j \in 1..Len(ereader_bookmarks) :
                            InList(ereader_bookmarks[j].id,
                                   LedgerIds(json_file))

\* an import "all" has completed over three rows, two of them with their id
\* in the ledger before the run
C16_Witness ==
    /\ op = "import" /\ bookmark_selection = <<"all">> /\ outcome = "ok"
    /\ Len(ereader_bookmarks) = 3
    /\ written = ereader_bookmarks
    /\ Cardinality({j \in 1..3 : InList(ereader_bookmarks[j].id, StartIds)})
           = 2
    /\ md_at_start # NoDocuments

\* query_bookmarks_from_ereader has exited, by return or by exception
ExtractorExited == xpc \in {"returned", "raised"}

\* C17: when query_bookmarks_from_ereader has exited, by return or by any
\* exception, the copy of the database it made no longer exists.
C17_CopyGoneOnEveryExit ==
    ExtractorExited => ~local_sqlite

\* the database has both tables and every row of its Bookmark table has a
\* book row: a content row of ContentType 6 with its VolumeID
AllVolumesMatched ==
    /\ sqlite_filepath.exists
    /\ {"Bookmark", "content"} \subseteq sqlite_filepath.tables
    /\ \A j \in 1..Len(sqlite_filepath.Bookmark) :
           \E l \in 1..Len(sqlite_filepath.content) :
               /\ sqlite_filepath.content[l].ContentID
                      = sqlite_filepath.Bookmark[j].VolumeID
               /\ sqlite_filepath.content[l].ContentType = "6"

\* the positions of the rows of the Bookmark table whose Text is not null
TextRows ==
    {j \in 1..Len(sqlite_filepath.Bookmark) :
         sqlite_filepath.Bookmark[j].Text.t # "null"}

\* C18: on a database in which every bookmark row has a book row,
\* query_bookmarks_from_ereader raises nothing and returns one record for
\* each row whose Text is not null, in the order of the rows, and none for a
\* row whose Text is null.
C18_OneRecordPerTextRow ==
    AllVolumesMatched
        => /\ xpc # "raised"
           /\ Len(all_bookmarks) <= Cardinality(TextRows)
           /\ \A n \in 1..Len(all_bookmarks) :
                  all_bookmarks[n].id
                      = sqlite_filepath.Bookmark[Nth(TextRows, n)].UUID
           /\ xpc = "returned"
                  => Len(all_bookmarks) = Cardinality(TextRows)

\* three rows, the second a marked page: two records were returned
C18_Witness ==
    /\ AllVolumesMatched /\ xpc = "returned"
    /\ Len(sqlite_filepath.Bookmark) = 3
    /\ sqlite_filepath.Bookmark[2].Text = PyNone
    /\ Len(all_bookmarks) = 2
    /\ all_bookmarks[1].id # all_bookmarks[2].id

\* the string holds " - ": a space, a hyphen, a space
HasSeparator(str) ==
    \E i \in 1..(Len(str) - 2) : SubSeq(str, i, i + 2) = <<" ", "-", " ">>

\* the book row of the row the n-th record was made from: the first content
\* row of ContentType 6 with its VolumeID
BookRowOf(n) ==
    LET row == sqlite_filepath.Bookmark[Nth(TextRows, n)]
        l == CHOOSE l \in 1..Len(sqlite_filepath.content) :
                 /\ sqlite_filepath.content[l].ContentID = row.VolumeID
                 /\ sqlite_filepath.content[l].ContentType = "6"
                 /\ \A m \in 1..(l - 1) :
                        ~ /\ sqlite_filepath.content[m].ContentID
                                 = row.VolumeID
                          /\ sqlite_filepath.content[m].ContentType = "6"
    IN  sqlite_filepath.content[l]

\* C19: the author of every extracted bookmark holds no " - ", whatever the
\* Attribution of its book; it is "Unknown author" when the Attribution is
\* null or empty.
C19_AuthorHasNoSeparator ==
    \A n \in 1..Len(all_bookmarks) :
        /\ ~HasSeparator(all_bookmarks[n].author)
        /\ BookRowOf(n).Attribution \in {PyNone, PyStr(<<>>)}
               => all_bookmarks[n].author = <<"Unknown", " ", "author">>

\* the string neither starts nor ends with whitespace
IsTrimmed(str) ==
    str = <<>> \/ (str[1] \notin {" ", "\n"} /\ str[Len(str)] \notin {" ", "\n"})

\* trimmed is str without the whitespace at its two ends
IsTrimOf(trimmed, str) ==
    /\ IsTrimmed(trimmed)
    /\ \E i \in 1..(Len(str) + 1) :
           /\ i + Len(trimmed) - 1 <= Len(str)
           /\ trimmed = SubSeq(str, i, i + Len(trimmed) - 1)
           /\ \A l \in 1..Len(str) :
                  (l < i \/ l > i + Len(trimmed) - 1)
                      => str[l] \in {" ", "\n"}

\* C20 as claimed: the title of every extracted bookmark has no leading and
\* no trailing whitespace, whatever the Title of its book row.
C20_TitleIsTrimmed ==
    \A n \in 1..Len(all_bookmarks) : IsTrimmed(all_bookmarks[n].title)

\* C20 as the code has it: the title of every extracted bookmark is the
\* Title of its book row as stored, whitespace at its ends included; it is
\* the text of the bookmark that is the stored Text without the whitespace
\* at its ends.
C20_TitleAsStoredTextTrimmed ==
    \A n \in 1..Len(all_bookmarks) :
        /\ all_bookmarks[n].title = BookRowOf(n).Title
        /\ IsTrimOf(all_bookmarks[n].text,
                    sqlite_filepath.Bookmark[Nth(TextRows, n)].Text.v)

\* the extractor has returned a bookmark whose title starts with a blank and
\* whose text lost the whitespace around it
C20_Witness ==
    /\ xpc = "returned"
    /\ \E n \in 1..Len(all_bookmarks) :
           /\ ~IsTrimmed(all_bookmarks[n].title)
           /\ all_bookmarks[n].text
                  # sqlite_filepath.Bookmark[Nth(TextRows, n)].Text.v
           /\ all_bookmarks[n].text = <<"a", "\n", "b">>

\* the database file is missing or cannot be read
SourceUnavailable ==
    ~sqlite_filepath.exists \/ sqlite_filepath.readable # "yes"

\* C21: when the database file is missing or unreadable the extraction
\* reports the error about the ereader and aborts, and the import or ls
\* that called it ends there: no document is written, the ledger is neither
\* created nor changed, and no copy of the database is left.
C21_SourceUnavailableAborts ==
    (SourceUnavailable /\ xpc # "call")
        => /\ xpc = "raised" /\ xraised = "Abort"
           /\ ~local_sqlite
           /\ md_files = md_at_start
           /\ json_file = json_at_start
           /\ pc = "idle" /\ written = <<>>
           /\ commands = 1 => outcome = "Abort"

\* the file is text that the TOML grammar rejects, or no text at all
NotValidToml(file) ==
    /\ file.exists
    /\ \/ \E j \in 1..Len(file.content) :
              file.content[j].kind \in {"garbage", "bytes"}
       \/ \E j, l \in 1..Len(file.content) :
              j # l /\ file.content[j].key = file.content[l].key

KeysOf(file) == {file.content[j].key : j \in 1..Len(file.content)}

\* the file exists, is valid TOML and has exactly the two fields
ExactlyTheFields(file) ==
    /\ file.exists
    /\ ~NotValidToml(file)
    /\ KeysOf(file) = {"target_dir", "ereader_dir"}

\* absent, not valid TOML, with an extra field or without one of the fields
NoConfiguration(file) ==
    \/ ~file.exists
    \/ NotValidToml(file)
    \/ \E k \in KeysOf(file) : k \notin {"target_dir", "ereader_dir"}
    \/ \E f \in {"target_dir", "ereader_dir"} : f \notin KeysOf(file)

\* C22: Config.from_file returns a Config only for a file that exists, is
\* valid TOML and holds exactly target_dir and ereader_dir; for a file that
\* is absent, not valid TOML, with an extra field or lacking a field it
\* raises ConfigError and nothing else, and then setup runs the
\* missing-config flow and ends the program (Exit or Abort) without a
\* command body being entered.
C22_FromFileConfigOrConfigError ==
    [][/\ spc = "start" =>
            /\ spc' = "ready" => ExactlyTheFields(config_file)
            /\ NoConfiguration(config_file) => spc' = "missing"
       /\ spc \in {"missing", "create"} =>
            spc' \in {"missing", "create", "Exit", "Abort"}
       /\ spc' = "body" => spc = "ready"]_vars

\* no entry of the list occurs at two positions
NoRepeatedEntry(ids) ==
    \A j, l \in 1..Len(ids) : ids[j] = ids[l] => j = l

\* C23: the ledgers found before the first command are absent, corrupt or
\* hold a list without repeated entry; after any sequence of imports (every
\* selector), listings, loads and recordId calls, a ledger that loads holds
\* no id more than once.
C23_NoIdTwiceInLedger ==
    LedgerCheck(json_file) = "" => NoRepeatedEntry(LedgerIds(json_file))

\* an import has ended that recorded an id the ledger held when it started
C23_Witness ==
    /\ pc = "idle" /\ op = "import" /\ outcome = "ok"
    /\ LedgerCheck(json_at_start) = ""
    /\ \E j \in 1..Len(recorded) : InList(recorded[j], StartIds)
    /\ LedgerCheck(json_file) = ""
    /\ Len(LedgerIds(json_file)) >= 2

\* C24: write_bookmark_id_to_json loads the list and stores it in two steps
\* and nothing keeps another program from writing between them: the store
\* of a program leaves in the ledger the list that program loaded, with its
\* id, whatever the ledger held just before. Two programs recording
\* different new ids can therefore both return with one id lost.
C24_StoreWritesTheLoadedList ==
    [][\A p \in Procs :
           (procs[p].at = "loaded" /\ procs'[p].at = "returned")
               => /\ LedgerCheck(json_file') = ""
                  /\ LedgerIds(json_file')
                         = StoredIds(procs[p].stored_ids, procs[p].id)]_vars

\* both calls have returned, their ids differ and were both new, and the
\* ledger lacks one of them
C24_Witness ==
    /\ \A p \in Procs : procs[p].at = "returned"
    /\ procs[1].id # procs[2].id
    /\ ~InList(procs[1].id, StartIds) /\ ~InList(procs[2].id, StartIds)
    /\ LedgerCheck(json_file) = ""
    /\ InList(procs[2].id, LedgerIds(json_file))
    /\ ~InList(procs[1].id, LedgerIds(json_file))

\* the import command has ended because a ledger call raised typer.Abort:
\* the ledger was corrupt and the answer to the question was no
AbortedByLedger ==
    /\ op = "import" /\ pc = "idle" /\ outcome = "Abort"
    /\ call.fn \in {"query", "write"} /\ call.raised = "Abort"

\* C25: whatever the selector, an import that a ledger error aborts has
\* modified no document: the documents are those found when the command
\* started and no bookmark is written whose id is not recorded.
C25_LedgerAbortLeavesDocuments ==
    AbortedByLedger
        => /\ md_files = md_at_start
           /\ written = <<>>
           /\ Len(written) = Len(recorded)

====
